---- MODULE Spec2Model ----
(***************************************************************************)
(* A model of tribd (Channel-3-Eugene/tribd): the DWRR scheduler of        *)
(* dwrr/dwrr.go and the FIFO buffer of fifobuffer/fifobuffer.go.           *)
(*                                                                         *)
(* Go slices are 0-based and TLA+ sequences 1-based: queue index i of the  *)
(* model is index i-1 of the code.  A nil slice and an empty slice are     *)
(* both the empty sequence.  A *T result is a sequence of length 0 (nil)   *)
(* or 1 (a pointer to the item).                                           *)
(***************************************************************************)
EXTENDS Integers, Sequences, FiniteSets, Bags, TLC

(***************************************************************************)
(* Bounds of the model                                                     *)
(***************************************************************************)
\* the largest number of queues (NewDWRR's count, and a cap on AddQueue)
MaxQueues == 2
\* the largest number of items the queues hold together
MaxItems == 4
\* the largest number of items one Enqueue call is given
MaxBatch == 2
\* the largest maxTake given to NewDWRR
MaxMaxTake == 2
\* the largest number of consecutive Do calls that are counted
MaxRun == 5
\* the largest number of items ever enqueued, over all queues, in SpecFlow
MaxEnq == 5

\* the number of tasks that call the FIFO buffer
NumTasks == 2
\* the largest number of Push calls, and of Pop calls
MaxPush == 3
MaxPop == 3

\* the largest capacity given to NewPacketChan
MaxCap == 2
\* the largest period NewPLL computes, the largest magnitude of a small delta
\* and the largest number of PID updates
MaxPeriod == 4
MaxDelta == 3
MaxUpdates == 3

\* the largest number of trigger goroutines that have not posted yet
MaxSleepers == 2

\* the largest number of Sends that succeed or may still succeed
MaxSends == 2
\* the largest number of Close calls
MaxCloses == 2

\* endpoints: the payloads put on a data channel or read from a resource, the
\* iterations of a loop that does not end (counted modulo MaxSpins + 1), the
\* Close calls
MaxPayloads == 2
MaxSpins == 2
\* the capacity of a file Reader's data channel (64 * 1024 in NewFileHandler)
MaxBuffered == 1

MaxEpCloses == 2
MaxDatagrams == 2

\* the values of type T that are enqueued
Items == {1, 2}

\* the largest value of a uint; it stands for 2^64-1, which is compared only
\* with queue lengths
MaxUint == 2147483647

Min(a, b) == IF a <= b THEN a ELSE b

\* all sequences over S of length 0..n
SeqsUpTo(S, n) == UNION {[1..k -> S] : k \in 0..n}

\* the number of items in the sequences of qs together
RECURSIVE TotalLen(_)
TotalLen(qs) ==
    IF Len(qs) = 0 THEN 0 ELSE Len(Head(qs)) + TotalLen(Tail(qs))

\* s is a prefix of t
IsPrefix(s, t) == Len(s) <= Len(t) /\ SubSeq(t, 1, Len(s)) = s

VARIABLES
    queues,     \* DWRR.queues: a sequence of sequences of items
    quantums,   \* DWRR.quantums: a sequence of uint
    maxTake,    \* DWRR.maxTake
    last,       \* the last call made on the scheduler and what it returned (Spec)
    runStart,   \* the queues when the current run of consecutive Do calls began (SpecRun)
    runDos,     \* the number of Do calls of the current run (SpecRun)
    runOut,     \* per queue, the items the Do calls of the current run returned (SpecRun)
    enqueued,   \* per queue, all items enqueued so far, in call order (SpecFlow)
    returned    \* per queue, all items returned in Do slots so far (SpecFlow)

dwrrVars == <<queues, quantums, maxTake>>
runVars == <<runStart, runDos, runOut>>
flowVars == <<enqueued, returned>>

VARIABLES
    fifoQueue,  \* FIFOBuffer.queue
    fifoMu,     \* FIFOBuffer's embedded sync.Mutex: 0, or the task that holds it
    fifoPc,     \* per task, where it is in Push or Pop
    fifoItem,   \* per task, the local variable item of Push or Pop
    fifoRet,    \* per task, what its last Pop returned: <<item, ok>>
    pushed,     \* the values pushed, in the order the appends took effect
    popped,     \* the values successful Pops took, in the order they took them
    popsDone,   \* the number of Pop calls that have returned
    fifoPhase   \* "push" until a Pop is called, then "pop"; "mixed" once a
                \* Push overlaps or follows a Pop

fifoVars == <<fifoQueue, fifoMu, fifoPc, fifoItem, fifoRet,
              pushed, popped, popsDone, fifoPhase>>

VARIABLES
    chBuf,      \* PacketChan.ch: the packets buffered in the Go channel
    chCap,      \* the capacity of PacketChan.ch
    chClosed,   \* whether close(p.ch) has been executed
    pcClosed,   \* PacketChan.closed
    pcMu,       \* PacketChan.mu: "", or the sender that holds it
    chPanic,    \* a send on, or a close of, the closed Go channel has panicked
    pool,       \* PacketChan.pool: the packets that were Put and not taken again
    allocated,  \* the number of packets the pool's New has made
    pktBuf,     \* per packet, Packet.buffer (nil is the empty sequence)
    pktMu,      \* per packet, Packet.mu: "", or the receiver that holds it
    sPc,        \* per sender, where it is in Send
    sPkt,       \* per sender, the local variable packet of Send (0: none)
    sData,      \* per sender, the argument data of the Send it is in
    sErr,       \* per sender, what its last Send returned
    rPc,        \* per receiver, where it is in Receive
    rPkt,       \* per receiver, the local variable packet of Receive (0: none)
    rRet,       \* per receiver, what its last Receive returned
    rIdx,       \* per receiver, the rank of the packet it holds among those received
    sentLog,    \* the data of the successful Sends, in the order they were sent
    recvCount,  \* the number of packets received from the channel
    closeCalls  \* the number of Close calls made

chanVars == <<chBuf, chCap, chClosed, pcClosed, pcMu, chPanic, pool, allocated,
              pktBuf, pktMu, sPc, sPkt, sData, sErr, rPc, rPkt, rRet, rIdx,
              sentLog, recvCount, closeCalls>>

VARIABLES
    pll,           \* the PLL: its period, delay, gains and PID state
    prevDelay,     \* PLL.delay before the last call of pidController
    pidUpdates     \* the number of calls of pidController

\* PLL.period
period == pll.period

\* PLL.delay
delay == pll.delay

\* PLL.kp
kp == pll.kp

\* PLL.ki
ki == pll.ki

\* PLL.kd
kd == pll.kd

\* PLL.integral
integral == pll.integral

\* PLL.lastDelta
lastDelta == pll.lastDelta

pllVars == <<pll, prevDelay, pidUpdates>>

VARIABLES
    pllRun         \* the PLL's mutex, goroutines, ticker and channels

\* PLL.mu: "", "loop" (the goroutine of Start) or a Stop caller
pllMu == pllRun.pllMu

\* where the goroutine of Start is: "none", "lock", "select"
loopPc == pllRun.loopPc

\* per Stop caller, where it is in Stop
stopPc == pllRun.stopPc

\* the ticker has not been stopped
tickerOn == pllRun.tickerOn

\* a tick is buffered in ticker.C (capacity 1)
tickPending == pllRun.tickPending

\* close(pll.EventCh) has been executed
eventClosed == pllRun.eventClosed

\* close(pll.TriggerCh) has been executed
triggerClosed == pllRun.triggerClosed

\* the number of trigger goroutines that have not posted yet
sleepers == pllRun.sleepers

\* "none", or the operation that panicked: "close", "send"
pllPanic == pllRun.pllPanic

pllRunVars == <<pllRun>>

VARIABLES
    ep             \* one endpoint of urihandler: the handler, the resources
                   \* it holds and the goroutines it started

VARIABLES
    codec          \* the MPEG-TS codec: the frame it works on, the last
                   \* operation applied to it and what that returned

VARIABLES
    input          \* one InputStream: where Start is, its done channel, the
                   \* packets of the datagram it is working on

\* the variables of everything but the scheduler and its observers
nonDwrrVars == <<fifoVars, chanVars, pllVars, pllRunVars, ep, codec, input>>

\* the variables of the scheduler and its observers
allDwrrVars == <<dwrrVars, last, runVars, flowVars>>

\* the variables of everything but the FIFO buffer
nonFifoVars == <<allDwrrVars, chanVars, pllVars, pllRunVars, ep, codec, input>>

\* the variables of everything but the packet channel
nonChanVars == <<allDwrrVars, fifoVars, pllVars, pllRunVars, ep, codec, input>>

\* the variables of everything but the PLL
nonPllVars == <<allDwrrVars, fifoVars, chanVars, pllRunVars, ep, codec, input>>

\* the variables of everything but the PLL and its goroutines
nonPllRunVars == <<allDwrrVars, fifoVars, chanVars, ep, codec, input>>

\* the variables of everything but the endpoint
nonEpVars == <<allDwrrVars, fifoVars, chanVars, pllVars, pllRunVars, codec, input>>

\* the variables of everything but the codec
nonCodecVars == <<allDwrrVars, fifoVars, chanVars, pllVars, pllRunVars, ep, input>>

\* the variables of everything but the input stream
nonInputVars == <<allDwrrVars, fifoVars, chanVars, pllVars, pllRunVars, ep, codec>>

vars == <<allDwrrVars, fifoVars, chanVars, pllVars, pllRunVars, ep, codec, input>>

(***************************************************************************)
(* dwrr/dwrr.go.  Every method holds dwrr.mu from its first statement to   *)
(* its return (Lock, defer Unlock), so concurrent callers are serialised   *)
(* and each method is one atomic action, taken when it holds the mutex.    *)
(* An action gives the method's effect on the scheduler; the value the     *)
(* method returns is the operator next to it.                              *)
(***************************************************************************)

\* NewDWRR(count, maxTake): count empty queues, every quantum 1
NewDWRR(count, mt) ==
    /\ queues = [i \in 1..count |-> <<>>]
    /\ quantums = [i \in 1..count |-> 1]
    /\ maxTake = mt

AddQueue ==
    /\ Len(queues) < MaxQueues
    /\ queues' = Append(queues, <<>>)
    /\ quantums' = Append(quantums, 0)
    /\ UNCHANGED maxTake

\* RemoveQueue that forgets the quantum of the queue it removes
RemoveQueueKeepQuantum ==
    /\ IF Len(queues) = 0
       THEN UNCHANGED queues
       ELSE queues' = SubSeq(queues, 1, Len(queues) - 1)
    /\ UNCHANGED <<quantums, maxTake>>


\* RemoveQueue that removes the first queue
RemoveQueueFirst ==
    /\ IF Len(queues) = 0
       THEN UNCHANGED <<queues, quantums>>
       ELSE /\ queues' = Tail(queues)
            /\ quantums' = Tail(quantums)
    /\ UNCHANGED maxTake

RemoveQueue ==
    /\ IF Len(queues) = 0
       THEN UNCHANGED <<queues, quantums>>
       ELSE /\ queues' = SubSeq(queues, 1, Len(queues) - 1)
            /\ quantums' = SubSeq(quantums, 1, Len(quantums) - 1)
    /\ UNCHANGED maxTake

\* Enqueue that leaves the quantum as it is
EnqueueStaleQuantum(queue, items) ==
    /\ queue \in 1..Len(queues)
    /\ TotalLen(queues) + Len(items) <= MaxItems
    /\ queues' = [queues EXCEPT ![queue] = queues[queue] \o items]
    /\ UNCHANGED <<quantums, maxTake>>

\* Enqueue that sets the quantum to the number of items given
EnqueueQuantumOfItems(queue, items) ==
    /\ queue \in 1..Len(queues)
    /\ TotalLen(queues) + Len(items) <= MaxItems
    /\ queues' = [queues EXCEPT ![queue] = queues[queue] \o items]
    /\ quantums' = [quantums EXCEPT ![queue] = Len(items)]
    /\ UNCHANGED maxTake

\* Enqueue(queue, items); an index outside the queues panics and is not a
\* call the model makes
Enqueue(queue, items) ==
    /\ queue \in 1..Len(queues)
    /\ TotalLen(queues) + Len(items) <= MaxItems
    /\ queues' = [queues EXCEPT ![queue] = queues[queue] \o items]
    /\ quantums' = [quantums EXCEPT ![queue] = Len(queues'[queue])]
    /\ UNCHANGED maxTake

\* no decrement
DecUintKeep(q) == q

\* quantums[queue]-- on a uint
DecUint(q) == IF q = 0 THEN MaxUint ELSE q - 1

Dequeue(queue) ==
    /\ queue \in 1..Len(queues)
    /\ IF Len(queues[queue]) = 0
       THEN UNCHANGED <<queues, quantums>>
       ELSE /\ queues' = [queues EXCEPT ![queue] = Tail(queues[queue])]
            /\ quantums' = [quantums EXCEPT ![queue] = DecUint(quantums[queue])]
    /\ UNCHANGED maxTake

\* what Dequeue(queue) returns: nil, or a pointer to the head item
DequeueRet(queue) ==
    IF Len(queues[queue]) = 0 THEN <<>> ELSE <<Head(queues[queue])>>

\* DequeueAll that leaves the quantum as it is
DequeueAllKeepQuantum(queue) ==
    /\ queue \in 1..Len(queues)
    /\ queues' = [queues EXCEPT ![queue] = <<>>]
    /\ UNCHANGED <<quantums, maxTake>>

DequeueAll(queue) ==
    /\ queue \in 1..Len(queues)
    /\ queues' = [queues EXCEPT ![queue] = <<>>]
    /\ quantums' = [quantums EXCEPT ![queue] = 0]
    /\ UNCHANGED maxTake

\* what DequeueAll(queue) returns
DequeueAllRet(queue) == queues[queue]

\* the split without the maxTake limit
SplitNoMaxTake(quantum, qlen, mt) ==
    IF quantum > qlen THEN qlen ELSE quantum

\* the number of items Do takes from a non-empty queue of length qlen
Split(quantum, qlen, mt) ==
    LET s1 == IF quantum > qlen THEN qlen ELSE quantum
    IN  IF s1 > mt THEN mt ELSE s1

\* the slot copied from the tail of the queue
DoSlotFromTail(queue, quantum, mt) ==
    IF Len(queue) = 0 THEN <<>>
    ELSE SubSeq(queue, Len(queue) - Split(quantum, Len(queue), mt) + 1, Len(queue))

\* one iteration of Do's loop, on queue i: the slot, the queue and the
\* quantum it leaves.  An iteration reads and writes index i only, so the
\* loop is the iteration applied at every index.
DoSlot(queue, quantum, mt) ==
    IF Len(queue) = 0 THEN <<>>
    ELSE SubSeq(queue, 1, Split(quantum, Len(queue), mt))

\* the queue left untrimmed
DoRestUntrimmed(queue, quantum, mt) == queue

DoRest(queue, quantum, mt) ==
    IF Len(queue) = 0 THEN queue
    ELSE SubSeq(queue, Split(quantum, Len(queue), mt) + 1, Len(queue))

\* the quantum of an empty queue left as it is
DoQuantumKeepEmpty(queue, quantum, mt) ==
    IF Len(queue) = 0 THEN quantum
    ELSE Len(queue) - Split(quantum, Len(queue), mt)

\* the quantum of a queue that still holds items counted as spent
DoQuantumSpent(queue, quantum, mt) == IF Len(queue) = 0 THEN 1 ELSE 0

DoQuantum(queue, quantum, mt) ==
    IF Len(queue) = 0 THEN 1
    ELSE Len(queue) - Split(quantum, Len(queue), mt)

Do ==
    /\ queues' = [i \in 1..Len(queues) |->
                     DoRest(queues[i], quantums[i], maxTake)]
    /\ quantums' = [i \in 1..Len(queues) |->
                     DoQuantum(queues[i], quantums[i], maxTake)]
    /\ UNCHANGED maxTake

\* what Do returns: one slot per queue
DoTake == [i \in 1..Len(queues) |-> DoSlot(queues[i], quantums[i], maxTake)]

(***************************************************************************)
(* fifobuffer/fifobuffer.go.  Tasks call Push and Pop concurrently; a call *)
(* is a sequence of steps, and the steps of different tasks interleave as  *)
(* the mutex allows.                                                       *)
(***************************************************************************)
Tasks == 1..NumTasks

\* the values of type T = int that are pushed; 0 is the zero value of T
FifoValues == {0, 1}
ZeroValue == 0

\* NewFIFOBuffer: an empty queue, an unlocked mutex; no task has called yet
NewFIFOBuffer ==
    /\ fifoQueue = <<>>
    /\ fifoMu = 0
    /\ fifoPc = [t \in Tasks |-> "idle"]
    /\ fifoItem = [t \in Tasks |-> ZeroValue]
    /\ fifoRet = [t \in Tasks |-> <<>>]

\* a slice or index expression out of range panics, and the panic of any
\* task ends the program
Panicked == \E t \in Tasks : fifoPc[t] = "panic"

\* the number of calls of Push and of Pop that have begun
PushesBegun ==
    Len(pushed) + Cardinality({t \in Tasks : fifoPc[t] \in {"push_lock", "push_append"}})

PopsBegun ==
    popsDone + Cardinality({t \in Tasks :
        fifoPc[t] \in {"pop_lock", "pop_check", "pop_read", "pop_slice", "pop_unlock"}})

InPush(t) == fifoPc[t] \in {"push_lock", "push_append", "push_unlock"}

\* a mutex that excludes nobody
CanLockAlways(t) == TRUE

\* sync.Mutex: Lock returns when no task holds the mutex
CanLock(t) == fifoMu = 0

Lock(t) == CanLock(t) /\ fifoMu' = t

Unlock(t) == fifoMu' = 0

\* task t calls Push(item)
PushCall(t, item) ==
    /\ ~Panicked
    /\ fifoPc[t] = "idle"
    /\ PushesBegun < MaxPush
    /\ fifoPc' = [fifoPc EXCEPT ![t] = "push_lock"]
    /\ fifoItem' = [fifoItem EXCEPT ![t] = item]
    /\ fifoPhase' = IF fifoPhase = "push" THEN "push" ELSE "mixed"
    /\ UNCHANGED <<fifoQueue, fifoMu, fifoRet, pushed, popped, popsDone>>

\* b.Lock()
PushLock(t) ==
    /\ ~Panicked
    /\ fifoPc[t] = "push_lock"
    /\ Lock(t)
    /\ fifoPc' = [fifoPc EXCEPT ![t] = "push_append"]
    /\ UNCHANGED <<fifoQueue, fifoItem, fifoRet, pushed, popped, popsDone, fifoPhase>>

\* b.queue = append(b.queue, item)
PushAppend(t) ==
    /\ ~Panicked
    /\ fifoPc[t] = "push_append"
    /\ fifoQueue' = Append(fifoQueue, fifoItem[t])
    /\ pushed' = Append(pushed, fifoItem[t])
    /\ fifoPc' = [fifoPc EXCEPT ![t] = "push_unlock"]
    /\ UNCHANGED <<fifoMu, fifoItem, fifoRet, popped, popsDone, fifoPhase>>

\* the deferred b.Unlock(), and the return
PushUnlock(t) ==
    /\ ~Panicked
    /\ fifoPc[t] = "push_unlock"
    /\ Unlock(t)
    /\ fifoPc' = [fifoPc EXCEPT ![t] = "idle"]
    /\ UNCHANGED <<fifoQueue, fifoItem, fifoRet, pushed, popped, popsDone, fifoPhase>>

\* task t calls Pop()
PopCall(t) ==
    /\ ~Panicked
    /\ fifoPc[t] = "idle"
    /\ PopsBegun < MaxPop
    /\ fifoPc' = [fifoPc EXCEPT ![t] = "pop_lock"]
    /\ fifoRet' = [fifoRet EXCEPT ![t] = <<>>]
    /\ fifoPhase' = IF fifoPhase = "mixed" \/ \E u \in Tasks : InPush(u)
                    THEN "mixed" ELSE "pop"
    /\ UNCHANGED <<fifoQueue, fifoMu, fifoItem, pushed, popped, popsDone>>

\* b.Lock()
PopLock(t) ==
    /\ ~Panicked
    /\ fifoPc[t] = "pop_lock"
    /\ Lock(t)
    /\ fifoPc' = [fifoPc EXCEPT ![t] = "pop_check"]
    /\ UNCHANGED <<fifoQueue, fifoItem, fifoRet, pushed, popped, popsDone, fifoPhase>>

\* the emptiness check that also turns away the last item
PopCheckOffByOne(t) ==
    /\ ~Panicked
    /\ fifoPc[t] = "pop_check"
    /\ IF Len(fifoQueue) <= 1
       THEN /\ fifoRet' = [fifoRet EXCEPT ![t] = <<ZeroValue, FALSE>>]
            /\ fifoPc' = [fifoPc EXCEPT ![t] = "pop_unlock"]
       ELSE /\ fifoPc' = [fifoPc EXCEPT ![t] = "pop_read"]
            /\ UNCHANGED fifoRet
    /\ UNCHANGED <<fifoQueue, fifoMu, fifoItem, pushed, popped, popsDone, fifoPhase>>

\* if len(b.queue) == 0 { var zero T; return zero, false }
PopCheck(t) ==
    /\ ~Panicked
    /\ fifoPc[t] = "pop_check"
    /\ IF Len(fifoQueue) = 0
       THEN /\ fifoRet' = [fifoRet EXCEPT ![t] = <<ZeroValue, FALSE>>]
            /\ fifoPc' = [fifoPc EXCEPT ![t] = "pop_unlock"]
       ELSE /\ fifoPc' = [fifoPc EXCEPT ![t] = "pop_read"]
            /\ UNCHANGED fifoRet
    /\ UNCHANGED <<fifoQueue, fifoMu, fifoItem, pushed, popped, popsDone, fifoPhase>>

\* the newest item instead of the oldest
PopItemNewest(queue) == queue[Len(queue)]

\* the item Pop takes from a non-empty queue: b.queue[0]
PopItem(queue) == queue[1]

\* item := b.queue[0]
PopRead(t) ==
    /\ ~Panicked
    /\ fifoPc[t] = "pop_read"
    /\ IF Len(fifoQueue) = 0
       THEN /\ fifoPc' = [fifoPc EXCEPT ![t] = "panic"]
            /\ UNCHANGED fifoItem
       ELSE /\ fifoItem' = [fifoItem EXCEPT ![t] = PopItem(fifoQueue)]
            /\ fifoPc' = [fifoPc EXCEPT ![t] = "pop_slice"]
    /\ UNCHANGED <<fifoQueue, fifoMu, fifoRet, pushed, popped, popsDone, fifoPhase>>

\* b.queue = b.queue[1:]; return item, true
PopSlice(t) ==
    /\ ~Panicked
    /\ fifoPc[t] = "pop_slice"
    /\ IF Len(fifoQueue) = 0
       THEN /\ fifoPc' = [fifoPc EXCEPT ![t] = "panic"]
            /\ UNCHANGED <<fifoQueue, fifoRet, popped>>
       ELSE /\ fifoQueue' = SubSeq(fifoQueue, 2, Len(fifoQueue))
            /\ fifoRet' = [fifoRet EXCEPT ![t] = <<fifoItem[t], TRUE>>]
            /\ popped' = Append(popped, fifoItem[t])
            /\ fifoPc' = [fifoPc EXCEPT ![t] = "pop_unlock"]
    /\ UNCHANGED <<fifoMu, fifoItem, pushed, popsDone, fifoPhase>>

\* the deferred b.Unlock(), and the return
PopUnlock(t) ==
    /\ ~Panicked
    /\ fifoPc[t] = "pop_unlock"
    /\ Unlock(t)
    /\ fifoPc' = [fifoPc EXCEPT ![t] = "idle"]
    /\ popsDone' = popsDone + 1
    /\ UNCHANGED <<fifoQueue, fifoItem, fifoRet, pushed, popped, fifoPhase>>

\* the buffer after construction, and the observer's empty history
InitFIFO ==
    /\ NewFIFOBuffer
    /\ pushed = <<>>
    /\ popped = <<>>
    /\ popsDone = 0
    /\ fifoPhase = "push"

(***************************************************************************)
(* channels/channels.go.  Senders call Send, receivers call Receive and    *)
(* any task calls Close, concurrently.  A step of a call is a stretch of   *)
(* its code that no other task can observe the inside of: statements under *)
(* a mutex that every other access takes, or one channel operation.        *)
(* Packet.release is two steps, pool.Put and the write of p.buffer,        *)
(* because Send calls it without holding Packet.mu.                        *)
(***************************************************************************)
Senders == {"s1", "s2"}
Receivers == {"r1", "r2"}
\* the Packet objects the pool's New function makes, in the order it makes them
Packets == {1, 2, 3}

\* the byte slices given to Send
Payloads == {<<>>, <<7>>}

\* what Receive returns: nothing yet, nil, or a slice
NoReturn == [done |-> FALSE, nil |-> FALSE, data |-> <<>>]
ReturnNil == [done |-> TRUE, nil |-> TRUE, data |-> <<>>]
ReturnData(data) == [done |-> TRUE, nil |-> FALSE, data |-> data]

\* NewPacketChan(size): an open, empty channel of capacity size and an empty
\* pool; no task has called yet
NewPacketChan(size) ==
    /\ chBuf = <<>>
    /\ chCap = size
    /\ chClosed = FALSE
    /\ pcClosed = FALSE
    /\ pcMu = ""
    /\ chPanic = FALSE
    /\ pool = {}
    /\ allocated = 0
    /\ pktBuf = [p \in Packets |-> <<>>]
    /\ pktMu = [p \in Packets |-> ""]
    /\ sPc = [t \in Senders |-> "idle"]
    /\ sPkt = [t \in Senders |-> 0]
    /\ sData = [t \in Senders |-> <<>>]
    /\ sErr = [t \in Senders |-> "none"]
    /\ rPc = [t \in Receivers |-> "idle"]
    /\ rPkt = [t \in Receivers |-> 0]
    /\ rRet = [t \in Receivers |-> NoReturn]
    /\ rIdx = [t \in Receivers |-> 0]

\* the packets pool.Get may return: one that was Put, or a new one
Gettable ==
    pool \cup ({allocated + 1} \cap Packets)

\* the senders whose Send has not failed yet
Sending == {t \in Senders : sPc[t] \in {"fill", "try"}}

\* a select that still sends when the channel holds capacity packets
ChanHasRoomOffByOne == Len(chBuf) <= chCap

\* the select of Send can send: the channel has room
ChanHasRoom == Len(chBuf) < chCap

\* task t calls Send(data): packet := p.pool.Get().(*Packet);
\* packet.pool = p.pool
SendGet(t, data) ==
    /\ ~chPanic
    /\ sPc[t] = "idle"
    /\ Len(sentLog) + Cardinality(Sending) < MaxSends
    /\ sData' = [sData EXCEPT ![t] = data]
    /\ sErr' = [sErr EXCEPT ![t] = "none"]
    /\ \E p \in Gettable :
        /\ sPkt' = [sPkt EXCEPT ![t] = p]
        /\ pool' = pool \ {p}
        /\ allocated' = IF p \in pool THEN allocated ELSE allocated + 1
    /\ sPc' = [sPc EXCEPT ![t] = "fill"]
    /\ UNCHANGED <<chBuf, chCap, chClosed, pcClosed, pcMu, chPanic, pktBuf,
                   pktMu, rPc, rPkt, rRet, rIdx,
                   sentLog, recvCount, closeCalls>>

\* packet.mu.Lock(); packet.buffer = append(packet.buffer[:0], data...);
\* packet.mu.Unlock()
SendFill(t) ==
    /\ ~chPanic
    /\ sPc[t] = "fill"
    /\ pktMu[sPkt[t]] = ""
    /\ pktBuf' = [pktBuf EXCEPT ![sPkt[t]] = sData[t]]
    /\ sPc' = [sPc EXCEPT ![t] = "try"]
    /\ UNCHANGED <<chBuf, chCap, chClosed, pcClosed, pcMu, chPanic, pool,
                   allocated, pktMu, sPkt, sData, sErr, rPc, rPkt, rRet, rIdx,
                   sentLog, recvCount, closeCalls>>

\* p.mu.Lock(); if p.closed { ... }; select { case p.ch <- packet: return nil;
\* default: ... }.  A failed Send keeps p.mu until it returns.
SendTry(t) ==
    /\ ~chPanic
    /\ sPc[t] = "try"
    /\ pcMu = ""
    /\ IF pcClosed
       THEN /\ sErr' = [sErr EXCEPT ![t] = "ChannelClosed"]
            /\ sPc' = [sPc EXCEPT ![t] = "release_put"]
            /\ pcMu' = t
            /\ UNCHANGED <<chBuf, chPanic, sPkt, sData, sentLog>>
       ELSE IF ChanHasRoom
            THEN IF chClosed
                 THEN /\ chPanic' = TRUE
                      /\ UNCHANGED <<chBuf, pcMu, sPc, sPkt, sData, sErr,
                                     sentLog>>
                 ELSE /\ chBuf' = Append(chBuf, sPkt[t])
                      /\ sentLog' = Append(sentLog, sData[t])
                      /\ sErr' = [sErr EXCEPT ![t] = "nil"]
                      /\ sPkt' = [sPkt EXCEPT ![t] = 0]
                      /\ sData' = [sData EXCEPT ![t] = <<>>]
                      /\ sPc' = [sPc EXCEPT ![t] = "idle"]
                      /\ UNCHANGED <<pcMu, chPanic>>
            ELSE /\ sErr' = [sErr EXCEPT ![t] = "BufferFull"]
                 /\ sPc' = [sPc EXCEPT ![t] = "release_put"]
                 /\ pcMu' = t
                 /\ UNCHANGED <<chBuf, chPanic, sPkt, sData, sentLog>>
    /\ UNCHANGED <<chCap, chClosed, pcClosed, pool, allocated, pktBuf, pktMu,
                   rPc, rPkt, rRet, rIdx,
                   recvCount, closeCalls>>

\* packet.release(), first statement: p.pool.Put(p)
SendReleasePut(t) ==
    /\ ~chPanic
    /\ sPc[t] = "release_put"
    /\ pool' = pool \cup {sPkt[t]}
    /\ sPc' = [sPc EXCEPT ![t] = "release_nil"]
    /\ UNCHANGED <<chBuf, chCap, chClosed, pcClosed, pcMu, chPanic,
                   allocated, pktBuf, pktMu, sPkt, sData, sErr, rPc, rPkt, rRet,
                   rIdx, sentLog, recvCount, closeCalls>>

\* packet.release(), second statement: p.buffer = nil; then the return of the
\* error and the deferred p.mu.Unlock()
SendReleaseNil(t) ==
    /\ ~chPanic
    /\ sPc[t] = "release_nil"
    /\ pktBuf' = [pktBuf EXCEPT ![sPkt[t]] = <<>>]
    /\ sPkt' = [sPkt EXCEPT ![t] = 0]
    /\ sData' = [sData EXCEPT ![t] = <<>>]
    /\ pcMu' = ""
    /\ sPc' = [sPc EXCEPT ![t] = "idle"]
    /\ UNCHANGED <<chBuf, chCap, chClosed, pcClosed, chPanic, pool,
                   allocated, pktMu, sErr, rPc, rPkt, rRet, rIdx,
                   sentLog, recvCount, closeCalls>>

\* task t calls Receive()
RecvCall(t) ==
    /\ ~chPanic
    /\ rPc[t] = "idle"
    /\ rPc' = [rPc EXCEPT ![t] = "receive"]
    /\ rRet' = [rRet EXCEPT ![t] = NoReturn]
    /\ rIdx' = [rIdx EXCEPT ![t] = 0]
    /\ UNCHANGED <<chBuf, chCap, chClosed, pcClosed, pcMu, chPanic, pool,
                   allocated, pktBuf, pktMu, sPc, sPkt, sData, sErr, rPkt,
                   sentLog, recvCount, closeCalls>>

\* a channel receive that a close does not wake
RecvTakeNoWake(t) ==
    /\ ~chPanic
    /\ rPc[t] = "receive"
    /\ Len(chBuf) > 0
    /\ rPkt' = [rPkt EXCEPT ![t] = chBuf[1]]
    /\ chBuf' = SubSeq(chBuf, 2, Len(chBuf))
    /\ recvCount' = recvCount + 1
    /\ rIdx' = [rIdx EXCEPT ![t] = recvCount + 1]
    /\ rPc' = [rPc EXCEPT ![t] = "data"]
    /\ UNCHANGED <<chCap, chClosed, pcClosed, pcMu, chPanic, pool, allocated,
                   pktBuf, pktMu, sPc, sPkt, sData, sErr, rRet,
                   sentLog, closeCalls>>

\* a channel receive that reports a closed channel before it looks for
\* buffered packets
RecvTakeClosedFirst(t) ==
    /\ ~chPanic
    /\ rPc[t] = "receive"
    /\ IF chClosed
       THEN /\ rRet' = [rRet EXCEPT ![t] = ReturnNil]
            /\ rPc' = [rPc EXCEPT ![t] = "idle"]
            /\ UNCHANGED <<chBuf, rPkt, rIdx, recvCount>>
       ELSE /\ Len(chBuf) > 0
            /\ rPkt' = [rPkt EXCEPT ![t] = chBuf[1]]
            /\ chBuf' = SubSeq(chBuf, 2, Len(chBuf))
            /\ recvCount' = recvCount + 1
            /\ rIdx' = [rIdx EXCEPT ![t] = recvCount + 1]
            /\ rPc' = [rPc EXCEPT ![t] = "data"]
            /\ UNCHANGED rRet
    /\ UNCHANGED <<chCap, chClosed, pcClosed, pcMu, chPanic, pool, allocated,
                   pktBuf, pktMu, sPc, sPkt, sData, sErr,
                   sentLog, closeCalls>>

\* packet, ok := <-p.ch; if !ok { return nil }.  The receive takes the oldest
\* buffered packet; with none buffered it returns ok = false on a closed
\* channel and blocks on an open one.
RecvTake(t) ==
    /\ ~chPanic
    /\ rPc[t] = "receive"
    /\ IF Len(chBuf) > 0
       THEN /\ rPkt' = [rPkt EXCEPT ![t] = chBuf[1]]
            /\ chBuf' = SubSeq(chBuf, 2, Len(chBuf))
            /\ recvCount' = recvCount + 1
            /\ rIdx' = [rIdx EXCEPT ![t] = recvCount + 1]
            /\ rPc' = [rPc EXCEPT ![t] = "data"]
            /\ UNCHANGED rRet
       ELSE /\ chClosed
            /\ rRet' = [rRet EXCEPT ![t] = ReturnNil]
            /\ rPc' = [rPc EXCEPT ![t] = "idle"]
            /\ UNCHANGED <<chBuf, rPkt, rIdx, recvCount>>
    /\ UNCHANGED <<chCap, chClosed, pcClosed, pcMu, chPanic, pool, allocated,
                   pktBuf, pktMu, sPc, sPkt, sData, sErr,
                   sentLog, closeCalls>>

\* packet.Data(): p.mu.Lock(); data := make([]byte, len(p.buffer));
\* copy(data, p.buffer); and the first statement of p.release(), p.pool.Put(p)
RecvData(t) ==
    /\ ~chPanic
    /\ rPc[t] = "data"
    /\ pktMu[rPkt[t]] = ""
    /\ pktMu' = [pktMu EXCEPT ![rPkt[t]] = t]
    /\ rRet' = [rRet EXCEPT ![t] = ReturnData(pktBuf[rPkt[t]])]
    /\ pool' = pool \cup {rPkt[t]}
    /\ rPc' = [rPc EXCEPT ![t] = "release_nil"]
    /\ UNCHANGED <<chBuf, chCap, chClosed, pcClosed, pcMu, chPanic,
                   allocated, pktBuf, sPc, sPkt, sData, sErr, rPkt, rIdx,
                   sentLog, recvCount, closeCalls>>

\* the second statement of p.release(), p.buffer = nil; then return data and
\* the deferred p.mu.Unlock()
RecvReleaseNil(t) ==
    /\ ~chPanic
    /\ rPc[t] = "release_nil"
    /\ pktBuf' = [pktBuf EXCEPT ![rPkt[t]] = <<>>]
    /\ pktMu' = [pktMu EXCEPT ![rPkt[t]] = ""]
    /\ rPkt' = [rPkt EXCEPT ![t] = 0]
    /\ rIdx' = [rIdx EXCEPT ![t] = 0]
    /\ rPc' = [rPc EXCEPT ![t] = "idle"]
    /\ UNCHANGED <<chBuf, chCap, chClosed, pcClosed, pcMu, chPanic, pool,
                   allocated, sPc, sPkt, sData, sErr, rRet,
                   sentLog, recvCount, closeCalls>>

\* a Close that closes the Go channel and forgets to set p.closed
CloseNoFlag ==
    /\ ~chPanic
    /\ closeCalls < MaxCloses
    /\ closeCalls' = closeCalls + 1
    /\ pcMu = ""
    /\ IF ~pcClosed
       THEN IF chClosed
            THEN chPanic' = TRUE /\ UNCHANGED chClosed
            ELSE chClosed' = TRUE /\ UNCHANGED chPanic
       ELSE UNCHANGED <<chClosed, chPanic>>
    /\ UNCHANGED <<chBuf, chCap, pcClosed, pcMu, pool, allocated, pktBuf, pktMu,
                   sPc, sPkt, sData, sErr, rPc, rPkt, rRet, rIdx,
                   sentLog, recvCount>>

\* Close(): p.mu.Lock(); if !p.closed { close(p.ch); p.closed = true };
\* p.mu.Unlock().  close of a closed channel panics.
Close ==
    /\ ~chPanic
    /\ closeCalls < MaxCloses
    /\ closeCalls' = closeCalls + 1
    /\ pcMu = ""
    /\ IF ~pcClosed
       THEN /\ IF chClosed
               THEN chPanic' = TRUE /\ UNCHANGED chClosed
               ELSE chClosed' = TRUE /\ UNCHANGED chPanic
            /\ pcClosed' = TRUE
       ELSE UNCHANGED <<chClosed, pcClosed, chPanic>>
    /\ UNCHANGED <<chBuf, chCap, pcMu, pool, allocated, pktBuf, pktMu,
                   sPc, sPkt, sData, sErr, rPc, rPkt, rRet, rIdx,
                   sentLog, recvCount>>

\* a channel after construction, and the observer's empty history
InitChan(size) ==
    /\ NewPacketChan(size)
    /\ sentLog = <<>>
    /\ recvCount = 0
    /\ closeCalls = 0

(***************************************************************************)
(* The PLL's PID controller.  Go's int and time.Duration are 64-bit        *)
(* two's-complement integers: + - * wrap around and / truncates toward     *)
(* zero.  The model keeps the wrap-around with a 16-bit width, which       *)
(* stands for the 64 bits, so that products stay within the integers the   *)
(* model checker computes with.                                            *)
(***************************************************************************)
IntModulus == 65536
MaxInt == (IntModulus \div 2) - 1
MinInt == -(IntModulus \div 2)

\* the value of x as a two's-complement integer
Wrap(x) == ((x - MinInt) % IntModulus) + MinInt

\* a division that rounds toward minus infinity
FloorDiv(a, b) == a \div b

\* Go's a / b for b > 0
TruncDiv(a, b) == IF a >= 0 THEN a \div b ELSE -((-a) \div b)

\* the divisor of the gains, which are "over 100"
GainScale == 100

\* the gains given to NewPLL
Gains == {-100, 0, 50, 100}

\* the deltas given to pidController: small ones and the extremes of int
Deltas == ((-MaxDelta)..MaxDelta) \cup {MinInt, MaxInt}

\* NewPLL(mbps, kp, ki, kd) with per the period computed from mbps;
\* time.NewTicker panics unless per > 0
NewPLL(per, p, i, d) ==
    /\ per > 0
    /\ pll = [period |-> per, delay |-> per, kp |-> p, ki |-> i, kd |-> d,
              integral |-> 0, lastDelta |-> 0]

\* porportional := int(delta) * pll.kp / 100
Porportional(delta) == TruncDiv(Wrap(delta * kp), GainScale)

\* pll.integral += int(delta) * pll.ki / 100
NewIntegral(delta) ==
    Wrap(integral + TruncDiv(Wrap(delta * ki), GainScale))

\* derivative := (int(delta) - pll.lastDelta) * pll.kd / 100
Derivative(delta) ==
    TruncDiv(Wrap(Wrap(delta - lastDelta) * kd), GainScale)

\* porportional + pll.integral + derivative
Adjustment(delta) ==
    Wrap(Wrap(Porportional(delta) + NewIntegral(delta)) + Derivative(delta))

\* a clamp without the upper bound
ClampLowerOnly(d) == IF d < 0 THEN 0 ELSE d

\* a clamp without the lower bound
ClampUpperOnly(d) == IF d > period THEN period ELSE d

\* if delay > pll.period { delay = pll.period }; if delay < 0 { delay = 0 }
Clamp(d) ==
    IF (IF d > period THEN period ELSE d) < 0
    THEN 0
    ELSE IF d > period THEN period ELSE d

\* a controller that adds the adjustment to the delay
PidControllerAdd(delta) ==
    pll' = [pll EXCEPT !.integral = NewIntegral(delta),
                       !.lastDelta = delta,
                       !.delay = Clamp(Wrap(delay + Adjustment(delta)))]

\* pidController(delta)
PidController(delta) ==
    pll' = [pll EXCEPT !.integral = NewIntegral(delta),
                       !.lastDelta = delta,
                       !.delay = Clamp(Wrap(delay - Adjustment(delta)))]

\* the sign of x
Sign(x) == IF x > 0 THEN 1 ELSE IF x < 0 THEN -1 ELSE 0

\* x is a value of int
InRange(x) == MinInt <= x /\ x <= MaxInt

\* no operation of pidController(delta) overflows
NoOverflow(delta) ==
    /\ InRange(delta * kp)
    /\ InRange(delta * ki)
    /\ InRange(integral + TruncDiv(delta * ki, GainScale))
    /\ InRange(delta - lastDelta)
    /\ InRange((delta - lastDelta) * kd)
    /\ InRange(Porportional(delta) + NewIntegral(delta))
    /\ InRange(Porportional(delta) + NewIntegral(delta) + Derivative(delta))
    /\ InRange(delay - Adjustment(delta))

\* the PID state is as NewPLL leaves it and no gain is negative
FreshPid ==
    /\ integral = 0
    /\ lastDelta = 0
    /\ kp >= 0
    /\ ki >= 0
    /\ kd >= 0

\* a PLL that is not used
PllUnused ==
    /\ NewPLL(1, 0, 0, 0)
    /\ prevDelay = 1
    /\ pidUpdates = 0

(***************************************************************************)
(* PLL.Start and PLL.Stop.  Start spawns one goroutine that locks PLL.mu,  *)
(* defers the unlock and loops over a select that has no exit; each tick   *)
(* spawns a trigger goroutine that sleeps and then sends on TriggerCh.     *)
(* A panic that nothing recovers ends the program.                         *)
(***************************************************************************)
StopCallers == {"c1", "c2"}

\* the PLL's goroutines and channels after NewPLL: nothing started, the
\* ticker running, both channels open
NewPLLRun ==
    pllRun = [pllMu |-> "", loopPc |-> "none",
              stopPc |-> [c \in StopCallers |-> "idle"],
              tickerOn |-> TRUE, tickPending |-> FALSE,
              eventClosed |-> FALSE, triggerClosed |-> FALSE,
              sleepers |-> 0, pllPanic |-> "none"]

\* Start(): go func() { ... }()
Start ==
    /\ pllPanic = "none"
    /\ loopPc = "none"
    /\ pllRun' = [pllRun EXCEPT !.loopPc = "lock"]

\* the goroutine of Start: pll.mu.Lock(); defer pll.mu.Unlock(); for { select
LoopLock ==
    /\ pllPanic = "none"
    /\ loopPc = "lock"
    /\ pllMu = ""
    /\ pllRun' = [pllRun EXCEPT !.pllMu = "loop", !.loopPc = "select"]

\* the runtime's ticker sends a tick on ticker.C unless one is still buffered
TickerFire ==
    /\ pllPanic = "none"
    /\ tickerOn
    /\ ~tickPending
    /\ pllRun' = [pllRun EXCEPT !.tickPending = TRUE]

\* case <-pll.ticker.C: pll.lastTick = time.Now(); go func() {
\* time.Sleep(pll.delay); pll.TriggerCh <- true }(); and the loop goes on
LoopTick ==
    /\ pllPanic = "none"
    /\ loopPc = "select"
    /\ tickPending
    /\ sleepers < MaxSleepers
    /\ pllRun' = [pllRun EXCEPT !.tickPending = FALSE,
                                !.sleepers = sleepers + 1]

\* case <-pll.EventCh: delta := time.Since(...); pll.pidController(delta);
\* and the loop goes on.  The receive completes when a sender offers an
\* event, or at once, with the zero value, when EventCh is closed.
LoopEvent(delta) ==
    /\ pllPanic = "none"
    /\ loopPc = "select"
    /\ pidUpdates < MaxUpdates
    /\ PidController(delta)
    /\ prevDelay' = delay
    /\ pidUpdates' = pidUpdates + 1
    /\ UNCHANGED pllRunVars

\* a trigger goroutine wakes up: pll.TriggerCh <- true, which a receiver
\* takes; a send on a closed channel panics
TriggerPost ==
    /\ pllPanic = "none"
    /\ sleepers > 0
    /\ IF triggerClosed
       THEN pllRun' = [pllRun EXCEPT !.pllPanic = "send"]
       ELSE pllRun' = [pllRun EXCEPT !.sleepers = sleepers - 1]

\* caller c calls Stop()
StopCall(c) ==
    /\ pllPanic = "none"
    /\ stopPc[c] = "idle"
    /\ pllRun' = [pllRun EXCEPT !.stopPc[c] = "lock"]

\* pll.mu.Lock(); defer pll.mu.Unlock()
StopLock(c) ==
    /\ pllPanic = "none"
    /\ stopPc[c] = "lock"
    /\ pllMu = ""
    /\ pllRun' = [pllRun EXCEPT !.pllMu = c, !.stopPc[c] = "body"]

\* pll.ticker.Stop(); close(pll.EventCh); close(pll.TriggerCh); return.
\* close of a closed channel panics; the deferred unlock runs either way.
StopBody(c) ==
    /\ pllPanic = "none"
    /\ stopPc[c] = "body"
    /\ IF eventClosed
       THEN pllRun' = [pllRun EXCEPT !.tickerOn = FALSE, !.pllMu = "",
                                     !.pllPanic = "close"]
       ELSE pllRun' = [pllRun EXCEPT !.tickerOn = FALSE, !.pllMu = "",
                                     !.eventClosed = TRUE,
                                     !.triggerClosed = TRUE,
                                     !.stopPc[c] = "done"]

\* a PLL whose Start and Stop are not used
PllRunUnused == NewPLLRun

(***************************************************************************)
(* urihandler: the endpoints (TCP, Unix-domain socket, UDP, file/FIFO).    *)
(* One endpoint is modelled at a time; ep is the handler object together   *)
(* with the state of the operating-system resources and of the goroutines  *)
(* it spawns.  The environment decides whether a bind, dial or open        *)
(* succeeds (envOk), when peers connect, send, or go away, when payloads   *)
(* arrive on the data channel and when a deadline passes.                  *)
(***************************************************************************)
Conns == {"k1", "k2"}

\* the goroutines that read: one for each connection, and receiveData
Readers == Conns \cup {"udp"}

\* the source addresses of datagrams: an IP and a port
Sources == {[ip |-> "a", port |-> 1], [ip |-> "b", port |-> 1]}

\* the strings an allow-list holds: "ip:port", or "ip" alone (port 0 here)
Entries == Sources \cup {[ip |-> "a", port |-> 0]}

\* net.ResolveUDPAddr("udp", e) succeeds: the string has a port
Resolves(e) == e.port # 0

\* addr.IP.String(): the key receiveData looks up
IpKey(src) == [ip |-> src.ip, port |-> 0]

\* an endpoint that no operation has touched; the fields are described where
\* they are used
NewEndpoint(kind, mode, role, deadline, ok) ==
    [kind |-> kind, mode |-> mode, role |-> role, deadline |-> deadline,
     envOk |-> ok,
     \* what Open returned, what each Close returned, whether a goroutine
     \* panicked, and the number of Close calls that preceded Open
     openRet |-> "none", closes |-> <<>>, panic |-> FALSE, openAt |-> -1,
     \* stream handlers: the goroutine of SocketHandler.Open, h.listener, the
     \* accept loop, h.connections (nil or a set), the sockets, the peers that
     \* went away, the goroutines of manageStream and the data they hold
     bg |-> "none", listener |-> "nil", accept |-> "none", spins |-> 0,
     connsNil |-> FALSE, conns |-> {},
     sock |-> [c \in Conns |-> "none"], gone |-> {},
     stream |-> [c \in Conns |-> "none"],
     \* the data channel towards the writers, what each connection was
     \* written, and the number of payloads put on the channel
     chan |-> <<>>, written |-> [c \in Conns |-> <<>>], puts |-> 0,
     \* readers: the reads that returned data, the reading goroutines whose
     \* connection has a read deadline set, those whose deadline has passed,
     \* what was forwarded
     reads |-> 0, armed |-> {}, expired |-> {}, forwarded |-> <<>>,
     \* UDP: h.conn, the goroutine, h.allowedSources, the datagram read and
     \* not forwarded yet, a map write in progress
     udpConn |-> "nil", udp |-> "none", allowed |-> {}, pending |-> <<>>,
     mapWrite |-> FALSE,
     \* file: the path exists, is a FIFO, h.file is set, its descriptor is
     \* open, h.isOpen, h.dataChan is closed, the goroutine
     exists |-> FALSE, fifo |-> FALSE, fileSet |-> FALSE, fdOpen |-> FALSE,
     isOpen |-> FALSE, pktClosed |-> FALSE, ftask |-> "none",
     \* file Reader: the packets the consumer has received from h.dataChan
     \* and the error that Send returned to readData
     taken |-> 0, sendErr |-> "none"]

\* NewTCPHandler / NewSocketHandler
NewStreamHandler(kind, mode, role, deadline, ok) ==
    NewEndpoint(kind, mode, role, deadline, ok)

\* NewUDPHandler: the mode is Peer; a source is kept if it resolves
NewUDPHandler(role, deadline, ok, sources) ==
    [NewEndpoint("udp", "peer", role, deadline, ok)
        EXCEPT !.allowed = {e \in sources : Resolves(e)}]

\* NewFileHandler: the mode is Peer
NewFileHandler(role, deadline, ok, isFIFO, exists) ==
    [NewEndpoint("file", "peer", role, deadline, ok)
        EXCEPT !.fifo = isFIFO, !.exists = exists]

\* an endpoint that is not used
EpUnused == [kind |-> "none"]

\* a connection that was never used
FreshConns == {c \in Conns : ep.sock[c] = "none"}

\* the handler registers connection c and runs manageStream on it:
\* h.connections[conn] = struct{}{} panics on the nil map
Register(c) ==
    IF ep.connsNil
    THEN [ep EXCEPT !.panic = TRUE, !.sock[c] = "open"]
    ELSE [ep EXCEPT !.conns = @ \cup {c}, !.sock[c] = "open",
                    !.stream[c] = "loop",
                    !.armed = IF ep.kind = "unix" /\ ep.role = "reader"
                                 /\ ep.deadline
                              THEN @ \cup {c} ELSE @]

\* Open returns ret
Return(e, ret) == [e EXCEPT !.openRet = ret, !.openAt = Len(e.closes)]

\* TCPHandler.Open: connectClient or startServer, whose error it returns
TcpOpen ==
    /\ ep.kind = "tcp"
    /\ ep.openRet = "none"
    /\ ~ep.panic
    /\ IF ep.mode = "peer"
       THEN ep' = Return(ep, "nil")
       ELSE IF ~ep.envOk
       THEN ep' = Return(ep, "err")
       ELSE IF ep.mode = "server"
       THEN ep' = Return([ep EXCEPT !.listener = "open", !.accept = "run"],
                         "nil")
       ELSE \E c \in FreshConns : ep' = Return(Register(c), "nil")

\* SocketHandler.Open: go h.connectClient() or go h.startServer(); return nil
UnixOpen ==
    /\ ep.kind = "unix"
    /\ ep.openRet = "none"
    /\ ~ep.panic
    /\ ep' = Return([ep EXCEPT
                        !.bg = IF ep.mode = "peer" THEN "none" ELSE "start"],
                     "nil")

\* the goroutine of SocketHandler.Open: net.Dial or net.Listen; on an error
\* it prints and returns
UnixStart ==
    /\ ep.bg = "start"
    /\ ~ep.panic
    /\ IF ~ep.envOk
       THEN ep' = [ep EXCEPT !.bg = "done"]
       ELSE IF ep.mode = "server"
       THEN ep' = [ep EXCEPT !.bg = "done", !.listener = "open",
                             !.accept = "run"]
       ELSE \E c \in FreshConns : ep' = [Register(c) EXCEPT !.bg = "done"]

\* acceptClients / the loop of startServer: Accept returns a connection,
\* which the loop holds
AcceptConn ==
    /\ ep.accept = "run"
    /\ ep.listener = "open"
    /\ ~ep.panic
    /\ \E c \in FreshConns : ep' = [ep EXCEPT !.accept = c, !.sock[c] = "open"]

\* the loop locks h.mu, registers the connection it holds, unlocks and
\* starts manageStream
AcceptRegister ==
    /\ ep.accept \in Conns
    /\ ~ep.panic
    /\ ep' = [Register(ep.accept) EXCEPT !.accept = "run"]

\* Accept returns an error, the listener being closed: continue
AcceptFail ==
    /\ ep.accept = "run"
    /\ ep.listener = "closed"
    /\ ~ep.panic
    /\ ep' = [ep EXCEPT !.spins = (@ + 1) % (MaxSpins + 1)]

\* the peer of connection c goes away: reads and writes on c fail from now on
PeerGone(c) ==
    /\ ep.sock[c] = "open"
    /\ c \notin ep.gone
    /\ ~ep.panic
    /\ ep' = [ep EXCEPT !.gone = @ \cup {c}]

\* a payload is put on the data channel of a Writer
PutPayload ==
    /\ ep.kind \in {"tcp", "unix", "udp"}
    /\ ep.role = "writer"
    /\ ep.openRet = "nil"
    /\ ~ep.panic
    /\ ep.puts < MaxPayloads
    /\ ep.chan = <<>>
    /\ ep' = [ep EXCEPT !.puts = @ + 1, !.chan = <<ep.puts + 1>>]

\* the deferred function of manageStream: conn.Close(); delete(h.connections,
\* conn), which does nothing on the nil map
StreamEnd(e, c) ==
    [e EXCEPT !.sock[c] = "closed", !.conns = @ \ {c}, !.stream[c] = "done"]

\* manageStream as Writer, one iteration of for batch := range h.dataChan:
\* this goroutine receives the payload and writes it on its connection; a
\* failed write ends the loop
StreamWrite(c) ==
    /\ ep.stream[c] = "loop"
    /\ ep.role = "writer"
    /\ ~ep.panic
    /\ ep.chan # <<>>
    /\ IF ep.sock[c] = "open" /\ c \notin ep.gone
       THEN ep' = [ep EXCEPT !.chan = Tail(@),
                             !.written[c] = Append(@, Head(ep.chan))]
       ELSE ep' = StreamEnd([ep EXCEPT !.chan = Tail(@)], c)

\* manageStream / handleRead as Reader: conn.Read returns data
StreamRead(c) ==
    /\ ep.stream[c] = "loop"
    /\ ep.role = "reader"
    /\ ~ep.panic
    /\ ep.sock[c] = "open" /\ c \notin ep.gone
    /\ c \notin ep.expired
    /\ ep.reads < MaxPayloads
    /\ ep' = [ep EXCEPT !.reads = @ + 1, !.stream[c] = "send"]

\* conn.Read returns an error: the connection is closed, the peer is gone, or
\* the deadline that was set has passed; break
StreamReadFail(c) ==
    /\ ep.stream[c] = "loop"
    /\ ep.role = "reader"
    /\ ~ep.panic
    /\ \/ ep.sock[c] = "closed"
       \/ c \in ep.gone
       \/ c \in ep.expired
    /\ ep' = StreamEnd(ep, c)

\* h.dataChan <- readBuffer[:n], which the consumer receives
StreamForward(c) ==
    /\ ep.stream[c] = "send"
    /\ ~ep.panic
    /\ ep' = [ep EXCEPT !.stream[c] = "loop", !.forwarded = Append(@, c)]

\* the read deadline set for goroutine t passes
DeadlineExpires(t) ==
    /\ t \in ep.armed
    /\ t \notin ep.expired
    /\ ~ep.panic
    /\ ep' = [ep EXCEPT !.expired = @ \cup {t}]

\* TCPHandler.Close / SocketHandler.Close: close the listener if there is
\* one, close every connection, h.connections = nil, return nil
StreamClose ==
    /\ ep.kind \in {"tcp", "unix"}
    /\ ~ep.panic
    /\ Len(ep.closes) < MaxEpCloses
    /\ ep' = [ep EXCEPT
                !.listener = IF @ = "nil" THEN "nil" ELSE "closed",
                !.sock = [c \in Conns |->
                            IF c \in ep.conns THEN "closed" ELSE ep.sock[c]],
                !.conns = {},
                !.connsNil = TRUE,
                !.closes = Append(@, "nil")]

\* UDPHandler.Open: resolve and bind, whose error it returns; then
\* go h.sendData() or go h.receiveData(), which sets the read deadline once
\* before its loop
UdpOpen ==
    /\ ep.kind = "udp"
    /\ ep.openRet = "none"
    /\ ~ep.panic
    /\ IF ~ep.envOk
       THEN ep' = Return(ep, "err")
       ELSE ep' = Return([ep EXCEPT
                     !.udpConn = "open",
                     !.udp = IF ep.role = "reader" THEN "rloop" ELSE "wloop",
                     !.armed = IF ep.role = "reader" /\ ep.deadline
                               THEN {"udp"} ELSE {}], "nil")

\* AddSource / RemoveSource: the write of h.allowedSources begins, under h.mu
SourceWriteBegin ==
    /\ ep.kind = "udp"
    /\ ~ep.mapWrite
    /\ ~ep.panic
    /\ ep' = [ep EXCEPT !.mapWrite = TRUE]

\* AddSource(e): any string is stored
AddSource(e) ==
    /\ ep.mapWrite
    /\ ~ep.panic
    /\ ep' = [ep EXCEPT !.mapWrite = FALSE, !.allowed = @ \cup {e}]

\* RemoveSource(e)
RemoveSource(e) ==
    /\ ep.mapWrite
    /\ ~ep.panic
    /\ ep' = [ep EXCEPT !.mapWrite = FALSE, !.allowed = @ \ {e}]

\* receiveData, one iteration in which ReadFromUDP returns a datagram from
\* src: it is forwarded if h.allowedSources has the key addr.IP.String(). The
\* map is read without h.mu: while a write is in progress the runtime may
\* stop the program, or the read sees the map as it was
UdpReceive(src) ==
    /\ ep.udp = "rloop"
    /\ ep.udpConn = "open"
    /\ "udp" \notin ep.expired
    /\ ~ep.panic
    /\ ep.reads < MaxPayloads
    /\ \/ ep' = [ep EXCEPT
                   !.reads = @ + 1,
                   !.udp = IF IpKey(src) \in ep.allowed THEN "rsend" ELSE @,
                   !.pending = IF IpKey(src) \in ep.allowed THEN <<src>> ELSE @]
       \/ /\ ep.mapWrite
          /\ ep' = [ep EXCEPT !.panic = TRUE]

\* ReadFromUDP returns an error, the socket being closed or the deadline
\* passed: continue
UdpReceiveFail ==
    /\ ep.udp = "rloop"
    /\ ep.udpConn = "closed" \/ "udp" \in ep.expired
    /\ ~ep.panic
    /\ ep' = [ep EXCEPT !.spins = (@ + 1) % (MaxSpins + 1)]

\* h.dataChan <- readBuffer[:n], which the consumer receives
UdpForward ==
    /\ ep.udp = "rsend"
    /\ ~ep.panic
    /\ ep' = [ep EXCEPT !.udp = "rloop", !.pending = <<>>,
                        !.forwarded = Append(@, Head(ep.pending))]

\* sendData, one iteration of for batch := range h.dataChan: the payload is
\* written to every destination; an error only ends the inner loop
UdpSend ==
    /\ ep.udp = "wloop"
    /\ ~ep.panic
    /\ ep.chan # <<>>
    /\ ep' = [ep EXCEPT !.chan = Tail(@)]

\* UDPHandler.Close: close h.conn if there is one; return nil
UdpClose ==
    /\ ep.kind = "udp"
    /\ ~ep.panic
    /\ Len(ep.closes) < MaxEpCloses
    /\ ep' = [ep EXCEPT
                !.udpConn = IF @ = "nil" THEN "nil" ELSE "closed",
                !.closes = Append(@, "nil")]

\* FileHandler.Open: a path that does not exist is made, as a FIFO (h.file
\* stays nil) or as a file; one that exists is opened; an error is returned.
\* Then h.isOpen = true and go h.readData() or go h.writeData()
FileOpen ==
    /\ ep.kind = "file"
    /\ ep.openRet = "none"
    /\ ~ep.panic
    /\ IF ~ep.envOk
       THEN ep' = Return(ep, "err")
       ELSE ep' = Return([ep EXCEPT
                     !.exists = TRUE,
                     !.fileSet = ~(ep.fifo /\ ~ep.exists),
                     !.fdOpen = ~(ep.fifo /\ ~ep.exists),
                     !.isOpen = TRUE,
                     !.ftask = IF ep.role = "reader" THEN "ropen" ELSE "wopen"],
                     "nil")

\* readData before its loop: if h.file is nil the file is opened, and the
\* goroutine returns if that fails
ReadDataOpen ==
    /\ ep.ftask = "ropen"
    /\ ~ep.panic
    /\ IF ep.fileSet
       THEN ep' = [ep EXCEPT !.ftask = "rloop"]
       ELSE IF ep.exists
       THEN ep' = [ep EXCEPT !.ftask = "rloop", !.fileSet = TRUE,
                             !.fdOpen = TRUE]
       ELSE ep' = [ep EXCEPT !.ftask = "done"]

\* the packets that h.dataChan holds: sent and not received yet
Buffered(e) == Len(e.forwarded) - e.taken

\* PacketChan.Send as readData calls it: an error if the channel is closed,
\* an error if its buffer is full, else nil
SendResult(e) ==
    IF e.pktClosed THEN "closed"
    ELSE IF Buffered(e) >= MaxBuffered THEN "full"
    ELSE "nil"

\* readData, one iteration in which Read returns data: with a read timeout
\* the select takes its default branch, the timer having just been made. The
\* packet is sent on h.dataChan; the goroutine returns if Send returns an
\* error, and closes h.file as it returns
ReadData ==
    /\ ep.ftask = "rloop"
    /\ ep.fdOpen
    /\ ~ep.panic
    /\ ep.reads < MaxPayloads
    /\ IF SendResult(ep) # "nil"
       THEN ep' = [ep EXCEPT !.reads = @ + 1, !.ftask = "done",
                             !.fdOpen = FALSE, !.sendErr = SendResult(ep)]
       ELSE ep' = [ep EXCEPT !.reads = @ + 1,
                             !.forwarded = Append(@, "file")]

\* the consumer of a file Reader receives a packet from DataChan()
TakePacket ==
    /\ ep.kind = "file"
    /\ ep.role = "reader"
    /\ Buffered(ep) > 0
    /\ ep' = [ep EXCEPT !.taken = @ + 1]

\* Read returns io.EOF or EINTR: continue
ReadDataAgain ==
    /\ ep.ftask = "rloop"
    /\ ep.fdOpen
    /\ ~ep.panic
    /\ ep' = [ep EXCEPT !.spins = (@ + 1) % (MaxSpins + 1)]

\* Read returns another error, the file being closed: return
ReadDataFail ==
    /\ ep.ftask = "rloop"
    /\ ~ep.fdOpen
    /\ ~ep.panic
    /\ ep' = [ep EXCEPT !.ftask = "done"]

\* writeData before its loop: the file is opened again and h.file replaced
WriteDataOpen ==
    /\ ep.ftask = "wopen"
    /\ ~ep.panic
    /\ ep' = [ep EXCEPT !.ftask = "wloop", !.exists = TRUE,
                        !.fileSet = TRUE, !.fdOpen = TRUE]

\* a packet is sent on the data channel of a file Writer
PutPacket ==
    /\ ep.kind = "file"
    /\ ep.role = "writer"
    /\ ep.openRet = "nil"
    /\ ~ep.pktClosed
    /\ ~ep.panic
    /\ ep.puts < MaxPayloads
    /\ ep.chan = <<>>
    /\ ep' = [ep EXCEPT !.puts = @ + 1, !.chan = <<ep.puts + 1>>]

\* writeData, one iteration: Receive returns a packet, which is written; the
\* goroutine returns if the write fails, and closes h.file as it returns
WriteData ==
    /\ ep.ftask = "wloop"
    /\ ~ep.panic
    /\ ep.chan # <<>>
    /\ IF ep.fdOpen
       THEN ep' = [ep EXCEPT !.chan = Tail(@),
                             !.written["k1"] = Append(@, Head(ep.chan))]
       ELSE ep' = [ep EXCEPT !.chan = Tail(@), !.ftask = "done"]

\* Receive returns nil, the channel being closed and empty: return
WriteDataEnd ==
    /\ ep.ftask = "wloop"
    /\ ~ep.panic
    /\ ep.chan = <<>>
    /\ ep.pktClosed
    /\ ep' = [ep EXCEPT !.ftask = "done", !.fdOpen = FALSE]

\* FileHandler.Close: if h.file is nil return nil; else close the file,
\* h.isOpen = false, unlink a FIFO, close h.dataChan, and return the error of
\* closing the file, which is one if the file was closed already
FileClose ==
    /\ ep.kind = "file"
    /\ ~ep.panic
    /\ Len(ep.closes) < MaxEpCloses
    /\ IF ~ep.fileSet
       THEN ep' = [ep EXCEPT !.closes = Append(@, "nil")]
       ELSE ep' = [ep EXCEPT
                     !.closes = Append(@, IF ep.fdOpen THEN "nil" ELSE "err"),
                     !.fdOpen = FALSE,
                     !.isOpen = FALSE,
                     !.exists = IF ep.fifo THEN FALSE ELSE @,
                     !.pktClosed = TRUE]

(***************************************************************************)
(* The MPEG-TS packet codec: src/mpegts/packets.go                         *)
(*                                                                         *)
(* An EncodedPacket is a sequence of 188 bytes; the byte at offset i of    *)
(* the Go array is element i + 1 of the sequence.  A uint64 is the         *)
(* sequence of its 8 bytes, most significant first, as                     *)
(* binary.BigEndian lays it out.  A slice expression that is out of range  *)
(* panics: the functions return a record that says so.                     *)
(***************************************************************************)
PacketSize == 188
SyncByte == 71

\* x & y and x | y on bytes
RECURSIVE BitAnd(_, _)
BitAnd(x, y) ==
    IF x = 0 \/ y = 0 THEN 0
    ELSE (x % 2) * (y % 2) + 2 * BitAnd(x \div 2, y \div 2)

RECURSIVE BitOr(_, _)
BitOr(x, y) ==
    IF x = 0 THEN y
    ELSE IF y = 0 THEN x
    ELSE (IF x % 2 = 1 \/ y % 2 = 1 THEN 1 ELSE 0)
         + 2 * BitOr(x \div 2, y \div 2)

\* the byte at offset i
At(p, i) == p[i + 1]

\* what a function returns: a value, or a panic
Value(v) == [panic |-> FALSE, val |-> v]
Panics == [panic |-> TRUE, val |-> <<>>]

\* the slice expression p[lo:hi]
Slice(p, lo, hi) ==
    IF lo <= hi /\ hi <= Len(p) THEN Value(SubSeq(p, lo + 1, hi)) ELSE Panics

\* a sum of bytes, which wraps
ByteSum(a, b) == (a + b) % 256

\* copy(p[at:], src)
Copy(p, at, src) ==
    [i \in 1..Len(p) |->
        IF i > at /\ i <= at + Len(src) THEN src[i - at] ELSE p[i]]

\* the uint64 zero, and a uint64 & 0x1FFFFFFFFFFFF
Zero64 == <<0, 0, 0, 0, 0, 0, 0, 0>>
Mask49(v) == [v EXCEPT ![1] = 0, ![2] = BitAnd(@, 1)]

GetAFC(p) == BitAnd(At(p, 3) \div 16, 3)

\* the AFC says there is an adaptation field
HasAdaptation(p) == GetAFC(p) = 2 \/ GetAFC(p) = 3

GetPayload(p) ==
    IF GetAFC(p) = 1 THEN Slice(p, 5, 5 + At(p, 4))
    ELSE Slice(p, 4, Len(p))

\* nil is the empty sequence
GetAdaptationField(p) ==
    IF HasAdaptation(p) THEN Slice(p, 5, 5 + At(p, 4)) ELSE Value(<<>>)

GetPCR(p) ==
    IF HasAdaptation(p) THEN Value(Mask49(SubSeq(p, 6, 13)))
    ELSE Value(Zero64)

\* EncodedPacket.SetPCR: binary.BigEndian.PutUint64(ep[5:13], pcr)
SetPCR(p, pcr) == IF HasAdaptation(p) THEN Copy(p, 5, pcr) ELSE p

GetOPCR(p) ==
    IF GetAFC(p) = 3 THEN Value(Mask49(SubSeq(p, 14, 21)))
    ELSE Value(Zero64)

\* length is a byte, and so is 23 + length
GetTransportPrivateData(p) ==
    IF GetAFC(p) = 3 THEN Slice(p, 23, ByteSum(23, At(p, 22)))
    ELSE Value(<<>>)

\* start := 22 + ep[22] is a byte; ep[start] panics if start is not an
\* offset of the array
GetAdaptationFieldExtension(p) ==
    IF GetAFC(p) = 3
    THEN LET start == ByteSum(22, At(p, 22))
         IN IF start >= Len(p) THEN Panics
            ELSE Slice(p, ByteSum(start, 1),
                       ByteSum(ByteSum(start, 1), At(p, start)))
    ELSE Value(<<>>)

\* a uint64 divided by a small divisor, byte by byte from the most
\* significant: the quotient and the remainder
RECURSIVE DivMod(_, _, _)
DivMod(v, d, rem) ==
    IF v = <<>> THEN [quo |-> <<>>, rem |-> rem]
    ELSE LET cur == rem * 256 + Head(v)
             rest == DivMod(Tail(v), d, cur % d)
         IN [quo |-> <<cur \div d>> \o rest.quo, rem |-> rest.rem]

\* byte(v >> (8 * k + 1)) of a uint64
ShiftedByte(v, k) == v[8 - k] \div 2 + (IF k < 7 THEN v[7 - k] % 2 ELSE 0) * 128

\* the function SetPCR(packet, pcr, pcrFrequency)
SetPCRFrequency(p, pcr, pcrFrequency) ==
    LET dm == DivMod(pcr, pcrFrequency, 0)
        pcrBase == dm.quo
        pcrExt == dm.rem
    IN [p EXCEPT ![5] = BitOr(@, 16),
                 ![6] = ShiftedByte(pcrBase, 3),
                 ![7] = ShiftedByte(pcrBase, 2),
                 ![8] = ShiftedByte(pcrBase, 1),
                 ![9] = ShiftedByte(pcrBase, 0),
                 ![10] = BitOr((pcrBase[8] % 2) * 128,
                               BitAnd(pcrExt \div 256, 127)),
                 ![11] = pcrExt % 256]

\* what NewAdaptations and NewPacket return: a value, an error or a panic
Error == [panic |-> FALSE, err |-> TRUE]
DecodeOk(v) == [panic |-> FALSE, err |-> FALSE, val |-> v]
DecodePanics == [panic |-> TRUE, err |-> FALSE]

\* the end of NewAdaptations, data being what the earlier fields left: the
\* extension flag is read from data[0], which panics on an empty slice
AdaptationsEnd(di, tpd, data) ==
    IF data = <<>> THEN DecodePanics
    ELSE DecodeOk([DiscontinuityIndicator |-> di,
                  TransportPrivateData |-> tpd,
                  AdaptationFieldExtension |->
                      IF BitAnd(data[1], 1) # 0 THEN Tail(data) ELSE <<>>,
                  UnusedData |-> data])

\* NewAdaptations(data), for the 1 to 4 bytes that NewPacket passes: PCR
\* and DTS stay 0, since a PCR flag needs 10 bytes and a DTS flag 5
NewAdaptations(data) ==
    LET di == BitAnd(data[1], 128) \div 128
    IN IF Len(data) < 1 THEN Error
       ELSE IF Len(data) = 1
       THEN DecodeOk([DiscontinuityIndicator |-> di,
                     TransportPrivateData |-> <<>>,
                     AdaptationFieldExtension |-> <<>>,
                     UnusedData |-> data])
       ELSE IF BitAnd(data[1], 16) # 0 /\ Len(data) < 10 THEN Error
       ELSE IF BitAnd(data[1], 32) # 0 /\ Len(data) < 5 THEN Error
       ELSE IF BitAnd(data[1], 64) # 0
       THEN LET length == data[2]
            IN IF Len(data) < 2 + length THEN Error
               ELSE AdaptationsEnd(di, SubSeq(data, 3, 2 + length),
                                   SubSeq(data, 3 + length, Len(data)))
       ELSE AdaptationsEnd(di, <<>>, data)

\* the header fields of NewPacket
DecodeHeader(p) ==
    [SyncByte |-> At(p, 0),
     TransportError |-> BitAnd(At(p, 1), 128) # 0,
     PayloadUnitStart |-> BitAnd(At(p, 1), 64) # 0,
     TransportPriority |-> BitAnd(At(p, 1), 32) # 0,
     PID |-> BitAnd(At(p, 1), 31) * 256 + At(p, 2),
     ScramblingControl |-> BitAnd(At(p, 3) \div 64, 3),
     ContinuityCounter |-> BitAnd(At(p, 3), 15)]

NewPacket(p) ==
    IF At(p, 0) # SyncByte THEN Error
    ELSE IF Len(p) # PacketSize THEN Error
    ELSE LET adaptationFieldLength == BitAnd(At(p, 4), 3) + 1
             payloadStart == 4 + adaptationFieldLength
             adaptations == NewAdaptations(SubSeq(p, 5, payloadStart))
         IN IF adaptations.panic THEN DecodePanics
            ELSE IF adaptations.err THEN Error
            ELSE DecodeOk([Encoded |-> p,
                          Decoded |-> DecodeHeader(p),
                          Adaptations |-> adaptations.val,
                          Payload |-> SubSeq(p, payloadStart + 1, Len(p))])

\* binary.BigEndian.PutUint16(b[at:], v): both bytes are overwritten
PutUint16(b, at, v) ==
    [b EXCEPT ![at + 1] = v \div 256, ![at + 2] = v % 256]

\* DecodedPacket.Encode: the three flags are set in encoded[1], then the
\* PID is put at encoded[1:]
EncodeHeader(d) ==
    LET flags == (IF d.TransportError THEN 128 ELSE 0)
                 + (IF d.PayloadUnitStart THEN 64 ELSE 0)
                 + (IF d.TransportPriority THEN 32 ELSE 0)
    IN PutUint16(<<d.SyncByte, flags, 0,
                   BitOr((d.ScramblingControl * 64) % 256,
                         d.ContinuityCounter)>>,
                 1, d.PID)

\* Adaptations.Encode, PCR and DTS being 0
EncodeAdaptations(a) ==
    <<BitAnd(a.DiscontinuityIndicator, 1) * 128>>
    \o (IF Len(a.TransportPrivateData) > 0
        THEN <<64, Len(a.TransportPrivateData)>> \o a.TransportPrivateData
        ELSE <<>>)
    \o (IF Len(a.AdaptationFieldExtension) > 0
        THEN <<1>> \o a.AdaptationFieldExtension
        ELSE <<>>)
    \o a.UnusedData

\* Packet.Encode: the header, the adaptations and the payload are copied
\* into 188 zero bytes, which become p.Encoded
Encode(pkt) ==
    LET zeros == [i \in 1..PacketSize |-> 0]
        adaptationBytes == EncodeAdaptations(pkt.Adaptations)
    IN Copy(Copy(Copy(zeros, 0, EncodeHeader(pkt.Decoded)),
                 4, adaptationBytes),
            4 + Len(adaptationBytes), pkt.Payload)

\* a frame with the given bytes at offsets 0 to 5 and 22, and fill elsewhere
MakeFrame(b0, b1, b2, b3, b4, b5, b22, fill) ==
    [i \in 1..PacketSize |->
        CASE i = 1 -> b0
          [] i = 2 -> b1
          [] i = 3 -> b2
          [] i = 4 -> b3
          [] i = 5 -> b4
          [] i = 6 -> b5
          [] i = 23 -> b22
          [] OTHER -> fill]

\* frames that differ in the header, in the flags of the adaptation field
\* and in the byte after them
HeaderFrames ==
    {MakeFrame(b0, b1, 35, b3, b4, b5, 0, 255) :
        b0 \in {SyncByte, 0}, b1 \in {0, 225, 31}, b3 \in {16, 233},
        b4 \in {0, 1, 17, 65, 67, 131}, b5 \in {0, 1, 16}}

\* frames that differ in the AFC and in the length bytes at offsets 4 and 22
LengthFrames ==
    {MakeFrame(SyncByte, 0, 35, afc * 16, b4, 0, b22, fill) :
        afc \in 0..3, b4 \in {0, 183, 184, 255},
        b22 \in {0, 165, 166, 240}, fill \in {0, 255}}

Frames == HeaderFrames \cup LengthFrames

\* PCR values below 2^42: 0, 300, 1234567890 and 2^42 - 1
PCRs ==
    {Zero64,
     <<0, 0, 0, 0, 0, 0, 1, 44>>,
     <<0, 0, 0, 0, 73, 150, 2, 210>>,
     <<0, 0, 3, 255, 255, 255, 255, 255>>}

\* the PCR frequency of the base: 27 MHz / 90 kHz
Frequencies == {300}

\* the codec applied to nothing yet: the frame, the last operation with its
\* argument and what it returned, whether a setter has changed the frame,
\* and the header of the packet that the frame was encoded from
NewCodec(frame) ==
    [frame |-> frame, op |-> "none", arg |-> Zero64, out |-> Value(<<>>),
     set |-> FALSE, from |-> <<>>]

\* the codec is not used
CodecUnused == [op |-> "unused"]

\* a getter is called on the frame
Get(name, ret) ==
    /\ codec.op # "unused"
    /\ codec' = [codec EXCEPT !.op = name, !.arg = Zero64, !.out = ret]

CodecGetPayload == Get("GetPayload", GetPayload(codec.frame))

CodecGetAdaptationField ==
    Get("GetAdaptationField", GetAdaptationField(codec.frame))

CodecGetPCR == Get("GetPCR", GetPCR(codec.frame))

CodecGetOPCR == Get("GetOPCR", GetOPCR(codec.frame))

CodecGetTransportPrivateData ==
    Get("GetTransportPrivateData", GetTransportPrivateData(codec.frame))

CodecGetAdaptationFieldExtension ==
    Get("GetAdaptationFieldExtension",
        GetAdaptationFieldExtension(codec.frame))

\* a setter is called on a frame of Frames
Set(name, pcr, frame) ==
    /\ codec.op # "unused"
    /\ ~codec.set
    /\ codec.from = <<>>
    /\ codec' = [codec EXCEPT !.op = name, !.arg = pcr, !.frame = frame,
                              !.out = Value(<<>>), !.set = TRUE]

CodecSetPCR(pcr) == Set("SetPCR", pcr, SetPCR(codec.frame, pcr))

CodecSetPCRFrequency(pcr, pcrFrequency) ==
    Set("SetPCRFrequency", pcr,
        SetPCRFrequency(codec.frame, pcr, pcrFrequency))

\* NewPacket is called on the frame
CodecNewPacket ==
    /\ codec.op # "unused"
    /\ codec' = [codec EXCEPT !.op = "NewPacket", !.arg = Zero64,
                              !.out = NewPacket(codec.frame)]

\* Encode is called on the packet that NewPacket returned, once; p.Encoded
\* is the frame from now on
CodecEncode ==
    /\ codec.op = "NewPacket"
    /\ codec.from = <<>>
    /\ ~codec.out.panic
    /\ ~codec.out.err
    /\ codec' = [codec EXCEPT
                    !.op = "Encode",
                    !.frame = Encode(codec.out.val),
                    !.out.val.Encoded = Encode(codec.out.val),
                    !.from = <<codec.out.val.Decoded>>]

(***************************************************************************)
(* The input reader: InputStream.Start in src/unnamed/part_003             *)
(*                                                                         *)
(* Start binds a UDP socket and loops: a select that returns if done is    *)
(* closed, else a blocking ReadFromUDP, then every 188-byte packet of the  *)
(* datagram is validated and, unless it is invalid or a null packet, sent  *)
(* on ch, which blocks until the consumer receives it.  The environment    *)
(* sends datagrams, receives from ch and closes done.                      *)
(***************************************************************************)
\* what a 188-byte chunk of a datagram turns out to be: a packet that
\* NewMPEGTSPacket rejects, a null packet, or a packet to hand on
PacketKinds == {"invalid", "null", "ts"}

\* what ReadFromUDP returns: an error, a number of bytes that is not a
\* multiple of 188, or up to two packets
Datagrams ==
    {[err |-> TRUE, aligned |-> TRUE, packets |-> <<>>],
     [err |-> FALSE, aligned |-> FALSE, packets |-> <<>>]}
    \cup {[err |-> FALSE, aligned |-> TRUE, packets |-> ps] :
            ps \in SeqsUpTo(PacketKinds, 2)}

\* Start has been called: ok says whether ListenUDP will succeed
NewInputStream(ok) ==
    [pc |-> "listen", envOk |-> ok, done |-> FALSE, batch |-> <<>>,
     reads |-> 0, sent |-> 0]

\* the input stream is not used
InputUnused == [pc |-> "unused"]

\* net.ListenUDP: log.Fatalf ends the process on an error
InputListen ==
    /\ input.pc = "listen"
    /\ input' = [input EXCEPT !.pc = IF input.envOk THEN "select" ELSE "exit"]

\* select: case <-done is taken when done is closed, default otherwise
InputSelect ==
    /\ input.pc = "select"
    /\ input' = [input EXCEPT !.pc = IF input.done THEN "returned" ELSE "read"]

\* conn.ReadFromUDP returns, a datagram having arrived: an error or
\* misaligned data continue the loop
InputRead(d) ==
    /\ input.pc = "read"
    /\ input' = [input EXCEPT
                    !.reads = (@ + 1) % (MaxDatagrams + 1),
                    !.batch = d.packets,
                    !.pc = IF d.err \/ ~d.aligned THEN "select" ELSE "packets"]

\* the loop over the packets of the datagram: an invalid or null packet is
\* skipped, any other is sent on ch; after the last packet the outer loop
\* goes round
InputPacket ==
    /\ input.pc = "packets"
    /\ IF input.batch = <<>>
       THEN input' = [input EXCEPT !.pc = "select"]
       ELSE IF Head(input.batch) = "ts"
       THEN input' = [input EXCEPT !.pc = "send"]
       ELSE input' = [input EXCEPT !.batch = Tail(@)]

\* ch <- packet completes: the consumer receives the packet
InputSend ==
    /\ input.pc = "send"
    /\ input' = [input EXCEPT !.pc = "packets", !.batch = Tail(@),
                              !.sent = (@ + 1) % (MaxDatagrams + 1)]

\* the done channel is closed
InputCloseDone ==
    /\ input.pc \notin {"unused", "exit"}
    /\ ~input.done
    /\ input' = [input EXCEPT !.done = TRUE]

(***************************************************************************)
(* The callers and the observer's bookkeeping                              *)
(***************************************************************************)
\* a call: its name, its queue argument (0 when it has none), the items
\* given to it and the value it returned
Call(name, queue, items, ret) ==
    [op |-> name, queue |-> queue, items |-> items, ret |-> ret]

EmptyPerQueue(n) == [i \in 1..n |-> <<>>]

\* the lists of items a caller enqueues
Batches == SeqsUpTo(Items, MaxBatch)

Init ==
    /\ \E count \in 0..MaxQueues, mt \in 0..MaxMaxTake : NewDWRR(count, mt)
    /\ last = Call("NewDWRR", 0, <<>>, <<>>)
    /\ runStart = queues
    /\ runDos = 0
    /\ runOut = EmptyPerQueue(Len(queues))
    /\ enqueued = EmptyPerQueue(Len(queues))
    /\ returned = EmptyPerQueue(Len(queues))
    /\ InitFIFO
    /\ InitChan(1)
    /\ PllUnused
    /\ PllRunUnused
    /\ ep = EpUnused
    /\ codec = CodecUnused
    /\ input = InputUnused

(***************************************************************************)
(* Spec: every operation of the scheduler, by any callers in any order;    *)
(* last records each call and its result                                   *)
(***************************************************************************)
CallAddQueue ==
    /\ AddQueue
    /\ last' = Call("AddQueue", 0, <<>>, <<>>)
    /\ UNCHANGED <<runVars, flowVars, nonDwrrVars>>

CallRemoveQueue ==
    /\ RemoveQueue
    /\ last' = Call("RemoveQueue", 0, <<>>, <<>>)
    /\ UNCHANGED <<runVars, flowVars, nonDwrrVars>>

CallEnqueue ==
    \E queue \in 1..Len(queues), items \in Batches :
        /\ Enqueue(queue, items)
        /\ last' = Call("Enqueue", queue, items, <<>>)
        /\ UNCHANGED <<runVars, flowVars, nonDwrrVars>>

CallDequeue ==
    \E queue \in 1..Len(queues) :
        /\ Dequeue(queue)
        /\ last' = Call("Dequeue", queue, <<>>, DequeueRet(queue))
        /\ UNCHANGED <<runVars, flowVars, nonDwrrVars>>

CallDequeueAll ==
    \E queue \in 1..Len(queues) :
        /\ DequeueAll(queue)
        /\ last' = Call("DequeueAll", queue, <<>>, DequeueAllRet(queue))
        /\ UNCHANGED <<runVars, flowVars, nonDwrrVars>>

CallDo ==
    /\ Do
    /\ last' = Call("Do", 0, <<>>, DoTake)
    /\ UNCHANGED <<runVars, flowVars, nonDwrrVars>>

Next ==
    \/ CallAddQueue
    \/ CallRemoveQueue
    \/ CallEnqueue
    \/ CallDequeue
    \/ CallDequeueAll
    \/ CallDo

Spec == Init /\ [][Next]_vars

(***************************************************************************)
(* SpecRun: every operation of the scheduler; the run variables follow the *)
(* current run of consecutive Do calls, which any other call restarts      *)
(***************************************************************************)
\* a call other than Do starts a new run
RunReset ==
    /\ runStart' = queues'
    /\ runDos' = 0
    /\ runOut' = EmptyPerQueue(Len(queues'))
    /\ UNCHANGED <<last, flowVars, nonDwrrVars>>

RunAddQueue == AddQueue /\ RunReset

RunRemoveQueue == RemoveQueue /\ RunReset

RunEnqueue ==
    \E queue \in 1..Len(queues), items \in Batches :
        Enqueue(queue, items) /\ RunReset

RunDequeue == \E queue \in 1..Len(queues) : Dequeue(queue) /\ RunReset

RunDequeueAll == \E queue \in 1..Len(queues) : DequeueAll(queue) /\ RunReset

\* a Do call extends the current run
RunDo ==
    /\ runDos < MaxRun
    /\ Do
    /\ runDos' = runDos + 1
    /\ runOut' = [i \in 1..Len(queues) |-> runOut[i] \o DoTake[i]]
    /\ UNCHANGED <<runStart, last, flowVars, nonDwrrVars>>

\* the observer may start counting at any state
RunObserve ==
    /\ runDos > 0
    /\ runStart' = queues
    /\ runDos' = 0
    /\ runOut' = EmptyPerQueue(Len(queues))
    /\ UNCHANGED <<dwrrVars, last, flowVars, nonDwrrVars>>

NextRun ==
    \/ RunObserve
    \/ RunAddQueue
    \/ RunRemoveQueue
    \/ RunEnqueue
    \/ RunDequeue
    \/ RunDequeueAll
    \/ RunDo

SpecRun == Init /\ [][NextRun]_vars

(***************************************************************************)
(* SpecFlow: a scheduler used through Enqueue and Do only; enqueued and    *)
(* returned keep everything that went in and came out                      *)
(***************************************************************************)
FlowEnqueue ==
    \E queue \in 1..Len(queues), items \in Batches :
        /\ TotalLen(enqueued) + Len(items) <= MaxEnq
        /\ Enqueue(queue, items)
        /\ enqueued' = [enqueued EXCEPT ![queue] = enqueued[queue] \o items]
        /\ UNCHANGED <<returned, last, runVars, nonDwrrVars>>

FlowDo ==
    /\ Do
    /\ returned' = [i \in 1..Len(queues) |-> returned[i] \o DoTake[i]]
    /\ UNCHANGED <<enqueued, last, runVars, nonDwrrVars>>

NextFlow ==
    \/ FlowEnqueue
    \/ FlowDo

SpecFlow == Init /\ [][NextFlow]_vars

(***************************************************************************)
(* SpecFIFO: tasks that push to and pop from one FIFO buffer; the          *)
(* scheduler is not used                                                   *)
(***************************************************************************)
DwrrUnused ==
    /\ NewDWRR(0, 0)
    /\ last = Call("NewDWRR", 0, <<>>, <<>>)
    /\ runStart = queues
    /\ runDos = 0
    /\ runOut = EmptyPerQueue(0)
    /\ enqueued = EmptyPerQueue(0)
    /\ returned = EmptyPerQueue(0)

InitSpecFIFO ==
    /\ DwrrUnused
    /\ InitFIFO
    /\ InitChan(1)
    /\ PllUnused
    /\ PllRunUnused
    /\ ep = EpUnused
    /\ codec = CodecUnused
    /\ input = InputUnused

TaskPushCall ==
    \E t \in Tasks, item \in FifoValues :
        PushCall(t, item) /\ UNCHANGED nonFifoVars

TaskPushLock == \E t \in Tasks : PushLock(t) /\ UNCHANGED nonFifoVars

TaskPushAppend == \E t \in Tasks : PushAppend(t) /\ UNCHANGED nonFifoVars

TaskPushUnlock == \E t \in Tasks : PushUnlock(t) /\ UNCHANGED nonFifoVars

TaskPopCall == \E t \in Tasks : PopCall(t) /\ UNCHANGED nonFifoVars

TaskPopLock == \E t \in Tasks : PopLock(t) /\ UNCHANGED nonFifoVars

TaskPopCheck == \E t \in Tasks : PopCheck(t) /\ UNCHANGED nonFifoVars

TaskPopRead == \E t \in Tasks : PopRead(t) /\ UNCHANGED nonFifoVars

TaskPopSlice == \E t \in Tasks : PopSlice(t) /\ UNCHANGED nonFifoVars

TaskPopUnlock == \E t \in Tasks : PopUnlock(t) /\ UNCHANGED nonFifoVars

NextFIFO ==
    \/ TaskPushCall
    \/ TaskPushLock
    \/ TaskPushAppend
    \/ TaskPushUnlock
    \/ TaskPopCall
    \/ TaskPopLock
    \/ TaskPopCheck
    \/ TaskPopRead
    \/ TaskPopSlice
    \/ TaskPopUnlock

SpecFIFO == InitSpecFIFO /\ [][NextFIFO]_vars

(***************************************************************************)
(* SpecChan: senders, receivers and closers of one PacketChan; the         *)
(* scheduler and the FIFO buffer are not used                              *)
(***************************************************************************)
InitSpecChan ==
    /\ DwrrUnused
    /\ InitFIFO
    /\ \E size \in 1..MaxCap : InitChan(size)
    /\ PllUnused
    /\ PllRunUnused
    /\ ep = EpUnused
    /\ codec = CodecUnused
    /\ input = InputUnused

ChanSendGet ==
    \E t \in Senders, data \in Payloads :
        SendGet(t, data) /\ UNCHANGED nonChanVars

ChanSendFill == \E t \in Senders : SendFill(t) /\ UNCHANGED nonChanVars

ChanSendTry == \E t \in Senders : SendTry(t) /\ UNCHANGED nonChanVars

ChanSendReleasePut ==
    \E t \in Senders : SendReleasePut(t) /\ UNCHANGED nonChanVars

ChanSendReleaseNil ==
    \E t \in Senders : SendReleaseNil(t) /\ UNCHANGED nonChanVars

ChanRecvCall == \E t \in Receivers : RecvCall(t) /\ UNCHANGED nonChanVars

ChanRecvTake == \E t \in Receivers : RecvTake(t) /\ UNCHANGED nonChanVars

ChanRecvData == \E t \in Receivers : RecvData(t) /\ UNCHANGED nonChanVars

ChanRecvReleaseNil ==
    \E t \in Receivers : RecvReleaseNil(t) /\ UNCHANGED nonChanVars

ChanClose == Close /\ UNCHANGED nonChanVars

NextChan ==
    \/ ChanSendGet
    \/ ChanSendFill
    \/ ChanSendTry
    \/ ChanSendReleasePut
    \/ ChanSendReleaseNil
    \/ ChanRecvCall
    \/ ChanRecvTake
    \/ ChanRecvData
    \/ ChanRecvReleaseNil
    \/ ChanClose

SpecChan == InitSpecChan /\ [][NextChan]_vars

\* SpecChanLive: the Go scheduler runs every goroutine that can run, so a
\* receiver whose channel receive can complete does complete
SpecChanLive ==
    /\ InitSpecChan
    /\ [][NextChan]_vars
    /\ \A t \in Receivers : WF_vars(RecvTake(t) /\ UNCHANGED nonChanVars)

(***************************************************************************)
(* SpecPLL: a PLL after NewPLL, and calls of pidController with any delta, *)
(* as the goroutine of Start makes them one at a time                      *)
(***************************************************************************)
InitSpecPLL ==
    /\ DwrrUnused
    /\ InitFIFO
    /\ InitChan(1)
    /\ \E per \in 1..MaxPeriod, p, i, d \in Gains : NewPLL(per, p, i, d)
    /\ prevDelay = delay
    /\ pidUpdates = 0
    /\ PllRunUnused
    /\ ep = EpUnused
    /\ codec = CodecUnused
    /\ input = InputUnused

PllUpdate ==
    /\ pidUpdates < MaxUpdates
    /\ \E delta \in Deltas : PidController(delta)
    /\ prevDelay' = delay
    /\ pidUpdates' = pidUpdates + 1
    /\ UNCHANGED nonPllVars

NextPLL == PllUpdate

SpecPLL == InitSpecPLL /\ [][NextPLL]_vars

(***************************************************************************)
(* SpecPLLRun: Start, up to two Stop calls, the ticker and the events of   *)
(* one PLL.  The Go scheduler runs every goroutine that can run: a         *)
(* goroutine that can take the mutex, finish Stop or post its trigger      *)
(* does so.                                                                *)
(***************************************************************************)
InitSpecPLLRun ==
    /\ DwrrUnused
    /\ InitFIFO
    /\ InitChan(1)
    /\ \E per \in 1..MaxPeriod : NewPLL(per, 100, 0, 0)
    /\ prevDelay = delay
    /\ pidUpdates = 0
    /\ NewPLLRun
    /\ ep = EpUnused
    /\ codec = CodecUnused
    /\ input = InputUnused

PllStart == Start /\ UNCHANGED <<nonPllRunVars, pllVars>>

PllLoopLock == LoopLock /\ UNCHANGED <<nonPllRunVars, pllVars>>

PllTickerFire == TickerFire /\ UNCHANGED <<nonPllRunVars, pllVars>>

PllLoopTick == LoopTick /\ UNCHANGED <<nonPllRunVars, pllVars>>

PllLoopEvent ==
    \E delta \in (-MaxDelta)..MaxDelta :
        LoopEvent(delta) /\ UNCHANGED nonPllRunVars

PllTriggerPost == TriggerPost /\ UNCHANGED <<nonPllRunVars, pllVars>>

PllStopCall ==
    \E c \in StopCallers : StopCall(c) /\ UNCHANGED <<nonPllRunVars, pllVars>>

PllStopLock ==
    \E c \in StopCallers : StopLock(c) /\ UNCHANGED <<nonPllRunVars, pllVars>>

PllStopBody ==
    \E c \in StopCallers : StopBody(c) /\ UNCHANGED <<nonPllRunVars, pllVars>>

NextPLLRun ==
    \/ PllStart
    \/ PllLoopLock
    \/ PllTickerFire
    \/ PllLoopTick
    \/ PllLoopEvent
    \/ PllTriggerPost
    \/ PllStopCall
    \/ PllStopLock
    \/ PllStopBody

SpecPLLRun ==
    /\ InitSpecPLLRun
    /\ [][NextPLLRun]_vars
    /\ WF_vars(PllLoopLock)
    /\ WF_vars(PllStopLock)
    /\ WF_vars(PllStopBody)
    /\ WF_vars(PllTriggerPost)

(***************************************************************************)
(* SpecEndpoint: one endpoint of any kind, mode and role, its Open, up to  *)
(* MaxEpCloses calls of Close, its goroutines and its environment          *)
(***************************************************************************)
Modes == {"server", "client", "peer"}

Roles == {"reader", "writer"}

\* the endpoints the constructors make
NewEndpoints ==
    {NewStreamHandler(k, m, r, d, ok) :
        k \in {"tcp", "unix"}, m \in Modes, r \in Roles, d \in BOOLEAN,
        ok \in BOOLEAN}
    \cup {NewUDPHandler(r, d, ok, srcs) :
            r \in Roles, d \in BOOLEAN, ok \in BOOLEAN,
            srcs \in SUBSET Entries}
    \cup {NewFileHandler(r, d, ok, f, x) :
            r \in Roles, d \in BOOLEAN, ok \in BOOLEAN, f \in BOOLEAN,
            x \in BOOLEAN}

InitSpecEndpoint ==
    /\ DwrrUnused
    /\ InitFIFO
    /\ InitChan(1)
    /\ PllUnused
    /\ PllRunUnused
    /\ ep \in NewEndpoints
    /\ codec = CodecUnused
    /\ input = InputUnused

EpTcpOpen == TcpOpen /\ UNCHANGED nonEpVars

EpUnixOpen == UnixOpen /\ UNCHANGED nonEpVars

EpUnixStart == UnixStart /\ UNCHANGED nonEpVars

EpAcceptConn == AcceptConn /\ UNCHANGED nonEpVars

EpAcceptRegister == AcceptRegister /\ UNCHANGED nonEpVars

EpAcceptFail == AcceptFail /\ UNCHANGED nonEpVars

EpPeerGone == \E c \in Conns : PeerGone(c) /\ UNCHANGED nonEpVars

EpPutPayload == PutPayload /\ UNCHANGED nonEpVars

EpStreamWrite == \E c \in Conns : StreamWrite(c) /\ UNCHANGED nonEpVars

EpStreamRead == \E c \in Conns : StreamRead(c) /\ UNCHANGED nonEpVars

EpStreamReadFail == \E c \in Conns : StreamReadFail(c) /\ UNCHANGED nonEpVars

EpStreamForward == \E c \in Conns : StreamForward(c) /\ UNCHANGED nonEpVars

EpDeadlineExpires == \E t \in Readers : DeadlineExpires(t) /\ UNCHANGED nonEpVars

EpStreamClose == StreamClose /\ UNCHANGED nonEpVars

EpUdpOpen == UdpOpen /\ UNCHANGED nonEpVars

EpSourceWriteBegin == SourceWriteBegin /\ UNCHANGED nonEpVars

EpAddSource == \E e \in Entries : AddSource(e) /\ UNCHANGED nonEpVars

EpRemoveSource == \E e \in Entries : RemoveSource(e) /\ UNCHANGED nonEpVars

EpUdpReceive == \E src \in Sources : UdpReceive(src) /\ UNCHANGED nonEpVars

EpUdpReceiveFail == UdpReceiveFail /\ UNCHANGED nonEpVars

EpUdpForward == UdpForward /\ UNCHANGED nonEpVars

EpUdpSend == UdpSend /\ UNCHANGED nonEpVars

EpUdpClose == UdpClose /\ UNCHANGED nonEpVars

EpFileOpen == FileOpen /\ UNCHANGED nonEpVars

EpReadDataOpen == ReadDataOpen /\ UNCHANGED nonEpVars

EpReadData == ReadData /\ UNCHANGED nonEpVars

EpTakePacket == TakePacket /\ UNCHANGED nonEpVars

EpReadDataAgain == ReadDataAgain /\ UNCHANGED nonEpVars

EpReadDataFail == ReadDataFail /\ UNCHANGED nonEpVars

EpWriteDataOpen == WriteDataOpen /\ UNCHANGED nonEpVars

EpPutPacket == PutPacket /\ UNCHANGED nonEpVars

EpWriteData == WriteData /\ UNCHANGED nonEpVars

EpWriteDataEnd == WriteDataEnd /\ UNCHANGED nonEpVars

EpFileClose == FileClose /\ UNCHANGED nonEpVars

NextEndpoint ==
    \/ EpTcpOpen
    \/ EpUnixOpen
    \/ EpUnixStart
    \/ EpAcceptConn
    \/ EpAcceptRegister
    \/ EpAcceptFail
    \/ EpPeerGone
    \/ EpPutPayload
    \/ EpStreamWrite
    \/ EpStreamRead
    \/ EpStreamReadFail
    \/ EpStreamForward
    \/ EpDeadlineExpires
    \/ EpStreamClose
    \/ EpUdpOpen
    \/ EpSourceWriteBegin
    \/ EpAddSource
    \/ EpRemoveSource
    \/ EpUdpReceive
    \/ EpUdpReceiveFail
    \/ EpUdpForward
    \/ EpUdpSend
    \/ EpUdpClose
    \/ EpFileOpen
    \/ EpReadDataOpen
    \/ EpReadData
    \/ EpTakePacket
    \/ EpReadDataAgain
    \/ EpReadDataFail
    \/ EpWriteDataOpen
    \/ EpPutPacket
    \/ EpWriteData
    \/ EpWriteDataEnd
    \/ EpFileClose

SpecEndpoint == InitSpecEndpoint /\ [][NextEndpoint]_vars

\* The Go scheduler runs every goroutine that can run: a goroutine that is
\* not waiting for its peer, for a payload or for data takes its next step.
\* The consumer of a Reader's data channel receives what is sent to it.
SpecEndpointLive ==
    /\ InitSpecEndpoint
    /\ [][NextEndpoint]_vars
    /\ WF_vars(EpUnixStart)
    /\ WF_vars(EpAcceptRegister)
    /\ WF_vars(EpAcceptFail)
    /\ WF_vars(EpStreamWrite)
    /\ WF_vars(EpStreamReadFail)
    /\ WF_vars(EpStreamForward)
    /\ WF_vars(EpUdpReceiveFail)
    /\ WF_vars(EpUdpForward)
    /\ WF_vars(EpUdpSend)
    /\ WF_vars(EpReadDataOpen)
    /\ WF_vars(EpReadDataFail)
    /\ WF_vars(EpTakePacket)
    /\ WF_vars(EpWriteDataOpen)
    /\ WF_vars(EpWriteData)
    /\ WF_vars(EpWriteDataEnd)

(***************************************************************************)
(* The specification of the codec: a frame, to which the functions of      *)
(* src/mpegts/packets.go are applied in any order                          *)
(***************************************************************************)
InitSpecCodec ==
    /\ DwrrUnused
    /\ InitFIFO
    /\ InitChan(1)
    /\ PllUnused
    /\ PllRunUnused
    /\ ep = EpUnused
    /\ codec \in {NewCodec(frame) : frame \in Frames}
    /\ input = InputUnused

CdcGetPayload == CodecGetPayload /\ UNCHANGED nonCodecVars

CdcGetAdaptationField == CodecGetAdaptationField /\ UNCHANGED nonCodecVars

CdcGetPCR == CodecGetPCR /\ UNCHANGED nonCodecVars

CdcGetOPCR == CodecGetOPCR /\ UNCHANGED nonCodecVars

CdcGetTransportPrivateData ==
    CodecGetTransportPrivateData /\ UNCHANGED nonCodecVars

CdcGetAdaptationFieldExtension ==
    CodecGetAdaptationFieldExtension /\ UNCHANGED nonCodecVars

CdcSetPCR == \E pcr \in PCRs : CodecSetPCR(pcr) /\ UNCHANGED nonCodecVars

CdcSetPCRFrequency ==
    \E pcr \in PCRs, f \in Frequencies :
        CodecSetPCRFrequency(pcr, f) /\ UNCHANGED nonCodecVars

CdcNewPacket == CodecNewPacket /\ UNCHANGED nonCodecVars

CdcEncode == CodecEncode /\ UNCHANGED nonCodecVars

NextCodec ==
    \/ CdcGetPayload
    \/ CdcGetAdaptationField
    \/ CdcGetPCR
    \/ CdcGetOPCR
    \/ CdcGetTransportPrivateData
    \/ CdcGetAdaptationFieldExtension
    \/ CdcSetPCR
    \/ CdcSetPCRFrequency
    \/ CdcNewPacket
    \/ CdcEncode

SpecCodec == InitSpecCodec /\ [][NextCodec]_vars

(***************************************************************************)
(* The specification of the input reader                                   *)
(***************************************************************************)
InitSpecInput ==
    /\ DwrrUnused
    /\ InitFIFO
    /\ InitChan(1)
    /\ PllUnused
    /\ PllRunUnused
    /\ ep = EpUnused
    /\ codec = CodecUnused
    /\ input \in {NewInputStream(ok) : ok \in BOOLEAN}

InListen == InputListen /\ UNCHANGED nonInputVars

InSelect == InputSelect /\ UNCHANGED nonInputVars

InRead == \E d \in Datagrams : InputRead(d) /\ UNCHANGED nonInputVars

InPacket == InputPacket /\ UNCHANGED nonInputVars

InSend == InputSend /\ UNCHANGED nonInputVars

InCloseDone == InputCloseDone /\ UNCHANGED nonInputVars

NextInput ==
    \/ InListen
    \/ InSelect
    \/ InRead
    \/ InPacket
    \/ InSend
    \/ InCloseDone

SpecInput == InitSpecInput /\ [][NextInput]_vars

\* The Go scheduler runs the goroutine of Start whenever it can run: it
\* takes every step that does not wait for a datagram or for the consumer.
\* Nothing obliges a peer to send a datagram or the consumer to receive.
SpecInputLive ==
    /\ InitSpecInput
    /\ [][NextInput]_vars
    /\ WF_vars(InListen)
    /\ WF_vars(InSelect)
    /\ WF_vars(InPacket)

(***************************************************************************)
(* Properties of the DWRR scheduler                                        *)
(***************************************************************************)
CeilDiv(n, d) == (n + d - 1) \div d

Min3(a, b, c) == Min(Min(a, b), c)

\* C1 (SpecFlow): with Enqueue and Do calls only, for every queue i the items
\* returned in slot i so far are a prefix of the items enqueued to queue i, in
\* call order, and the items not yet returned are exactly the content of queue
\* i: nothing is lost, duplicated, reordered or returned in another slot.
C1_PerQueueFifo ==
    /\ Len(enqueued) = Len(queues)
    /\ Len(returned) = Len(queues)
    /\ \A i \in 1..Len(queues) :
        /\ IsPrefix(returned[i], enqueued[i])
        /\ returned[i] \o queues[i] = enqueued[i]

\* two queues with different items, each partly returned over several Do calls
C1_Witness ==
    /\ Len(queues) = 2
    /\ Len(returned[1]) >= 2 /\ Len(queues[1]) >= 1
    /\ Len(returned[2]) >= 1
    /\ returned[1][1] # returned[1][2]
    /\ returned[1][1] # returned[2][1]

\* C2 (Spec): every slot of every Do result holds at most maxTake items.
C2_MaxTakeBound ==
    last.op = "Do" => \A i \in 1..Len(last.ret) : Len(last.ret[i]) <= maxTake

\* a Do call that was cut by maxTake: the slot is full and items are left
C2_Witness ==
    /\ last.op = "Do"
    /\ maxTake >= 1
    /\ \E i \in 1..Len(queues) :
        Len(last.ret[i]) = maxTake /\ Len(queues[i]) >= 2

\* C3 (SpecRun): with maxTake >= 1, a queue that holds n >= 1 items is empty,
\* and its n items have been returned in order, once ceil(n / maxTake)
\* consecutive Do calls have been made.
C3_DrainBound ==
    \A i \in 1..Len(queues) :
        (/\ maxTake >= 1
         /\ Len(runStart[i]) >= 1
         /\ runDos >= CeilDiv(Len(runStart[i]), maxTake))
        => (runOut[i] = runStart[i] /\ queues[i] = <<>>)

\* three items drained by exactly two Do calls of at most two items each
C3_Witness ==
    /\ maxTake = 2
    /\ runDos = 2
    /\ \E i \in 1..Len(queues) :
        Len(runStart[i]) = 3 /\ runOut[i] = runStart[i] /\ queues[i] = <<>>

\* C4 (Spec): a Do call returns one slot per queue, in queue order; the slot
\* of a non-empty queue is its first min(quantum, length, maxTake) items, which
\* leave the head of the queue while the rest stays in order; the slot of an
\* empty queue is empty.
C4_DoStep ==
    [][last'.op = "Do" =>
        /\ Len(last'.ret) = Len(queues)
        /\ Len(queues') = Len(queues)
        /\ \A i \in 1..Len(queues) :
            LET n == Min3(quantums[i], Len(queues[i]), maxTake)
            IN  IF Len(queues[i]) = 0
                THEN last'.ret[i] = <<>> /\ queues'[i] = <<>>
                ELSE /\ last'.ret[i] = SubSeq(queues[i], 1, n)
                     /\ queues'[i] = SubSeq(queues[i], n + 1, Len(queues[i]))
    ]_vars

\* a Do call over a queue it drains partly and an empty queue
C4_Witness ==
    /\ last.op = "Do"
    /\ Len(queues) = 2
    /\ Len(last.ret[1]) = 2 /\ Len(queues[1]) = 1
    /\ last.ret[1][1] # last.ret[1][2]
    /\ last.ret[2] = <<>> /\ queues[2] = <<>>

\* C5 (Spec): there are as many quantums as queues.
C5_SameLength == Len(queues) = Len(quantums)

\* a queue was removed from a scheduler that still holds a non-empty queue
C5_Witness ==
    /\ last.op = "RemoveQueue"
    /\ Len(queues) = 1
    /\ Len(queues[1]) >= 1

\* C6 (Spec): when Do returns, the quantum of a queue that was empty is 1, and
\* the quantum of any other queue is its length before the call minus the
\* number of items taken from it, which is the number of items left in it.
C6_DoQuantum ==
    [][last'.op = "Do" =>
        \A i \in 1..Len(queues) :
            IF Len(queues[i]) = 0
            THEN quantums'[i] = 1
            ELSE /\ quantums'[i] = Len(queues[i]) - Len(last'.ret[i])
                 /\ quantums'[i] = Len(queues'[i])
    ]_vars

\* a Do call that left items in one queue and found another one empty
C6_Witness ==
    /\ last.op = "Do"
    /\ \E i, j \in 1..Len(queues) :
        /\ Len(last.ret[i]) >= 1 /\ quantums[i] = 2 /\ Len(queues[i]) = 2
        /\ last.ret[j] = <<>> /\ quantums[j] = 1 /\ queues[j] = <<>>

\* C7 (Spec): Enqueue(i, items) appends items to queue i in the given order,
\* sets quantum[i] to the length of queue i after the append, and leaves every
\* other queue and quantum as it was.
C7_EnqueueStep ==
    [][last'.op = "Enqueue" =>
        LET q == last'.queue
            items == last'.items
        IN  /\ Len(queues') = Len(queues)
            /\ Len(quantums') = Len(quantums)
            /\ queues'[q] = queues[q] \o items
            /\ quantums'[q] = Len(queues[q]) + Len(items)
            /\ \A j \in 1..Len(queues) :
                j # q => queues'[j] = queues[j] /\ quantums'[j] = quantums[j]
    ]_vars

\* items were enqueued behind the residue of a queue, next to another
\* non-empty queue
C7_Witness ==
    /\ last.op = "Enqueue"
    /\ Len(last.items) = 2
    /\ Len(queues[last.queue]) = 3
    /\ quantums[last.queue] = 3
    /\ \E j \in 1..Len(queues) : j # last.queue /\ Len(queues[j]) >= 1

\* C8 (Spec): Dequeue(i) on a non-empty queue returns the head item, removes
\* exactly that item and decrements quantum[i] by one; on an empty queue it
\* returns nil and leaves queue i and quantum[i] as they were.
C8_DequeueStep ==
    [][last'.op = "Dequeue" =>
        LET q == last'.queue
        IN  IF Len(queues[q]) = 0
            THEN /\ last'.ret = <<>>
                 /\ queues'[q] = queues[q]
                 /\ quantums'[q] = quantums[q]
            ELSE /\ last'.ret = <<queues[q][1]>>
                 /\ queues'[q] = SubSeq(queues[q], 2, Len(queues[q]))
                 /\ quantums'[q] = quantums[q] - 1
    ]_vars

\* a Dequeue that returned an item and left two behind
C8_Witness ==
    /\ last.op = "Dequeue"
    /\ Len(last.ret) = 1
    /\ Len(queues[last.queue]) = 2
    /\ quantums[last.queue] = 2

\* a Dequeue on an empty queue
C8_WitnessEmpty ==
    /\ last.op = "Dequeue"
    /\ last.ret = <<>>
    /\ queues[last.queue] = <<>>

(***************************************************************************)
(* Properties of the FIFO buffer                                           *)
(***************************************************************************)
\* the number of times v occurs in s
Count(s, v) == Cardinality({k \in 1..Len(s) : s[k] = v})

AllIdle == \A t \in Tasks : fifoPc[t] = "idle"

\* C9 (SpecFIFO): under any interleaving of Push and Pop calls, the values the
\* successful Pops took are a prefix of the values pushed, in the order the
\* pushes took effect.
C9_FifoOrder == IsPrefix(popped, pushed)

\* two different values popped, in push order, while calls of other tasks
\* overlapped and a third value waits in the buffer
C9_Witness ==
    /\ fifoPhase = "mixed"
    /\ Len(popped) = 2
    /\ popped[1] # popped[2]
    /\ Len(fifoQueue) = 1
    /\ \E t \in Tasks : fifoPc[t] = "pop_lock"

\* C10 (SpecFIFO): at every point the values taken by successful Pops together
\* with the values in the buffer are the values pushed, each as many times;
\* and when n Pushes have completed and n Pops have then been made, all n Pops
\* succeeded and the buffer is empty.
C10_Conservation ==
    /\ \A v \in FifoValues :
        Count(popped, v) + Count(fifoQueue, v) = Count(pushed, v)
    /\ (fifoPhase = "pop" /\ AllIdle /\ popsDone = Len(pushed))
        => (Len(popped) = Len(pushed) /\ fifoQueue = <<>>)

\* three completed pushes, then three pops by the tasks, all returned
C10_Witness ==
    /\ fifoPhase = "pop"
    /\ AllIdle
    /\ Len(pushed) = 3
    /\ popsDone = 3
    /\ Count(pushed, 0) = 1
    /\ \A t \in Tasks : Len(fifoRet[t]) = 2

\* C11 (SpecFIFO): a Pop that finds the buffer empty returns the zero value
\* of T with ok = false and the buffer is still empty when it returns; a Pop
\* that finds an item does not return ok = false.
C11_PopEmpty ==
    /\ [](\A t \in Tasks :
            (Len(fifoRet[t]) = 2 /\ fifoRet[t][2] = FALSE)
            => /\ fifoRet[t][1] = ZeroValue
               /\ fifoPc[t] = "pop_unlock" => fifoQueue = <<>>)
    /\ [][\A t \in Tasks :
            (fifoPc[t] = "pop_check" /\ fifoPc'[t] # "pop_check")
            => IF Len(fifoQueue) = 0
               THEN /\ fifoRet'[t] = <<ZeroValue, FALSE>>
                    /\ fifoQueue' = <<>>
               ELSE /\ fifoRet'[t] = <<>>
                    /\ fifoPc'[t] = "pop_read"
       ]_vars

\* a Pop that failed on the emptied buffer after another Pop had returned
\* the pushed value 0 with ok = true
C11_Witness ==
    /\ fifoQueue = <<>>
    /\ Len(pushed) >= 1
    /\ \E t, u \in Tasks :
        /\ fifoPc[t] = "idle" /\ fifoRet[t] = <<ZeroValue, FALSE>>
        /\ fifoRet[u] = <<ZeroValue, TRUE>>

(***************************************************************************)
(* Properties of the packet channel                                        *)
(***************************************************************************)
\* the mutex a sender waits for is held by a task that is about to release it
SendNotStuck(t) ==
    /\ sPc[t] = "fill" /\ pktMu[sPkt[t]] # ""
        => rPc[pktMu[sPkt[t]]] = "release_nil"
    /\ sPc[t] = "try" /\ pcMu # ""
        => sPc[pcMu] \in {"release_put", "release_nil"}

\* C12 (SpecChan): Close is idempotent: a Close of a closed channel changes
\* nothing of the channel and no Close or Send panics; once the channel is
\* closed, a Send that reaches its check returns ChannelClosed, leaves the
\* channel as it is and never waits for anything but a mutex whose holder is
\* about to release it.
C12_ClosedSend ==
    /\ [](~chPanic /\ (pcClosed <=> chClosed))
    /\ [](\A t \in Senders : pcClosed => SendNotStuck(t))
    /\ [](\A t \in Senders :
            sPc[t] \in {"release_put", "release_nil"}
            => sErr[t] \in {"ChannelClosed", "BufferFull"})
    /\ [][(closeCalls' # closeCalls /\ pcClosed)
            => UNCHANGED <<chBuf, chClosed, pcClosed, chPanic, pool, pktBuf,
                           sPc, sErr, rPc, rRet>>]_vars
    /\ [][\A t \in Senders :
            (pcClosed /\ sPc[t] = "try" /\ sPc'[t] # "try")
            => /\ sErr'[t] = "ChannelClosed"
               /\ UNCHANGED <<chBuf, sentLog>>]_vars
    /\ [][\A t \in Senders :
            (sPc[t] = "release_nil" /\ sPc'[t] = "idle")
            => sErr'[t] = sErr[t]]_vars

C12_Witness ==
    /\ closeCalls = 2
    /\ ~chPanic
    /\ Len(chBuf) > 0
    /\ \E t \in Senders : sPc[t] = "idle" /\ sErr[t] = "ChannelClosed"

\* C13 (SpecChanLive): a Receive that waits on a closed, empty channel, whether
\* it was waiting when Close was called or was issued after Close, eventually
\* returns nil.
C13_CloseWakes ==
    \A t \in Receivers :
        (rPc[t] = "receive" /\ chClosed /\ chBuf = <<>>)
        ~> (rPc[t] = "idle" /\ rRet[t] = ReturnNil)

C13_Witness ==
    /\ chClosed
    /\ chBuf = <<>>
    /\ \E t, u \in Receivers :
        /\ rPc[t] = "idle" /\ rRet[t] = ReturnNil
        /\ rPc[u] = "receive"

\* the packets that are buffered in the channel or were received from it
\* and not copied yet
InFlight ==
    {chBuf[i] : i \in 1..Len(chBuf)}
        \cup {rPkt[t] : t \in {u \in Receivers : rPc[u] = "data"}}

\* C14 (SpecChan): the channel receive of Receive returns nil exactly when the
\* channel is closed and empty, so a nil return is only seen on a closed and
\* empty channel; otherwise it takes the oldest buffered packet, closed or
\* not, the buffer of a packet in flight is not written, and Data returns a
\* non-nil slice equal to that buffer, empty payload included.
C14_NilIffClosedEmpty ==
    /\ [](\A t \in Receivers :
            rRet[t].nil => chClosed /\ chBuf = <<>>)
    /\ [][\A t \in Receivers :
            (rPc[t] = "receive" /\ rPc'[t] # "receive")
            => IF chClosed /\ chBuf = <<>>
               THEN rRet'[t] = ReturnNil /\ rPc'[t] = "idle"
               ELSE /\ rRet'[t] = NoReturn
                    /\ rPc'[t] = "data"
                    /\ rPkt'[t] = Head(chBuf)
                    /\ chBuf' = Tail(chBuf)]_vars
    /\ [][\A p \in InFlight : pktBuf'[p] = pktBuf[p]]_vars
    /\ [][\A t \in Receivers :
            (rPc[t] = "data" /\ rPc'[t] # "data")
            => rRet'[t] = [done |-> TRUE, nil |-> FALSE,
                           data |-> pktBuf[rPkt[t]]]]_vars

C14_Witness ==
    /\ closeCalls >= 1
    /\ Len(sentLog) = 2
    /\ \E t, u \in Receivers :
        /\ rPc[t] = "idle" /\ rRet[t] = ReturnData(<<>>)
        /\ rPc[u] = "idle" /\ rRet[u] = ReturnNil

\* C15 (SpecChan): the channel never holds more packets than its capacity; a
\* Send that finds the open channel holding capacity packets returns
\* BufferFull and leaves the channel content unchanged, puts its packet into
\* the pool before it returns and returns without the packet; a Send never
\* waits for the channel, only for a mutex whose holder is about to release it.
C15_Backpressure ==
    /\ [](Len(chBuf) <= chCap)
    /\ [](\A t \in Senders : SendNotStuck(t))
    /\ [][\A t \in Senders :
            (sPc[t] = "try" /\ sPc'[t] # "try" /\ ~pcClosed
                /\ Len(chBuf) = chCap)
            => /\ sErr'[t] = "BufferFull"
               /\ sPc'[t] = "release_put"
               /\ UNCHANGED <<chBuf, sentLog>>]_vars
    /\ [][\A t \in Senders :
            (sPc[t] = "release_put" /\ sPc'[t] # "release_put")
            => /\ sPkt[t] \in pool'
               /\ sPc'[t] = "release_nil"
               /\ UNCHANGED <<chBuf, sErr>>]_vars
    /\ [][\A t \in Senders :
            (sPc[t] = "release_nil" /\ sPc'[t] # "release_nil")
            => /\ sPc'[t] = "idle"
               /\ sPkt'[t] = 0
               /\ UNCHANGED <<chBuf, sErr, pool>>]_vars

C15_Witness ==
    /\ ~chClosed
    /\ Len(chBuf) = chCap
    /\ \E t \in Senders :
        /\ sPc[t] = "idle"
        /\ sErr[t] = "BufferFull"
    /\ pool # {}

\* C16 (SpecChan), as the specification states it: the k-th packet received
\* from the channel yields, from Data, exactly the bytes given to the k-th
\* successful Send.  The code does not keep it: see the trace TLC reports.
C16_DataIntegrity ==
    [][\A t \in Receivers :
        (rPc[t] = "data" /\ rPc'[t] # "data")
        => /\ rIdx[t] \in 1..Len(sentLog)
           /\ rRet'[t] = ReturnData(sentLog[rIdx[t]])]_vars

\* the second Receive returns an empty slice although the second successful
\* Send was given <<7>>
C16_Witness ==
    \E t \in Receivers :
        /\ rPc[t] = "release_nil"
        /\ rIdx[t] = 2
        /\ sentLog[2] = <<7>>
        /\ rRet[t] = ReturnData(<<>>)

\* the number of places packet p is in: the pool, the channel, and each task
\* whose local variable still refers to it
Places(p) ==
    (IF p \in pool THEN 1 ELSE 0)
        + Cardinality({i \in 1..Len(chBuf) : chBuf[i] = p})
        + Cardinality({t \in Senders : sPkt[t] = p})
        + Cardinality({t \in Receivers : rPkt[t] = p})

\* C17 (SpecChan), as the specification states it: every packet the pool has
\* made is in exactly one place, and a step that writes the buffer of a packet
\* is not taken on a packet that is in the pool.  The code does not keep it:
\* release puts the packet into the pool and then writes p.buffer.
C17_LinearOwnership ==
    /\ [](\A p \in 1..allocated : Places(p) = 1)
    /\ [][\A p \in 1..allocated :
            pktBuf'[p] # pktBuf[p] => p \notin pool]_vars

\* two senders hold the same packet: one has put it into the pool and has not
\* cleared its buffer yet, the other got it from the pool and wrote its payload
C17_Witness ==
    \E t, u \in Senders :
        /\ t # u
        /\ sPkt[t] # 0
        /\ sPkt[t] = sPkt[u]
        /\ sPc[t] = "release_nil"
        /\ sPc[u] = "try"
        /\ pktBuf[sPkt[u]] = <<7>>

(***************************************************************************)
(* Properties of the PLL                                                   *)
(***************************************************************************)
\* C18 (SpecPLL): after NewPLL and after any sequence of PID updates with any
\* deltas, 0 <= delay <= period.
C18_DelayInRange == 0 <= delay /\ delay <= period

C18_Witness ==
    /\ pidUpdates = 2
    /\ prevDelay = 0
    /\ delay = period
    /\ lastDelta = MinInt

\* C19 (SpecPLL), as the specification states it: every PID update, in any
\* reachable state, with a positive delta leaves delay_new <= delay_old and
\* with a negative delta leaves delay_new >= delay_old.
C19_Monotone ==
    [][pidUpdates' # pidUpdates
        => /\ lastDelta' > 0 => delay' <= delay
           /\ lastDelta' < 0 => delay' >= delay]_vars

\* C19 (SpecPLL), amended: a PID update applied when integral = 0 and
\* last_delta = 0, with gains that are not negative and without overflow,
\* leaves delay_new <= delay_old for a positive delta and
\* delay_new >= delay_old for a negative delta.
C19_MonotoneFresh ==
    [][(pidUpdates' # pidUpdates /\ FreshPid /\ NoOverflow(lastDelta'))
        => /\ lastDelta' > 0 => delay' <= delay
           /\ lastDelta' < 0 => delay' >= delay]_vars

C19_Witness ==
    /\ pidUpdates = 1
    /\ kp = 100 /\ ki = 50 /\ kd = 0
    /\ lastDelta = 3
    /\ prevDelay = 4
    /\ delay = 0
    /\ integral = 1

\* C20 (SpecPLL), as the specification states it: for every PID update,
\* sign(delay_new - delay_old) = -sign(delta) and delay_new is in [0, period].
C20_SignLaw ==
    [][pidUpdates' # pidUpdates
        => /\ Sign(delay' - delay) = -Sign(lastDelta')
           /\ 0 <= delay' /\ delay' <= period]_vars

\* C20 (SpecPLL), amended: for every PID update delay_new is in [0, period];
\* for an update applied when integral = 0 and last_delta = 0, with gains that
\* are not negative and without overflow, sign(delay_new - delay_old) is
\* -sign(delta), except that it is 0 when the truncated adjustment
\* p + integral + d is 0 or delay_old is already at the bound the update
\* pushes toward (0 for a positive delta, period for a negative one).
C20_SignLawFresh ==
    [][pidUpdates' # pidUpdates
        => /\ 0 <= delay' /\ delay' <= period
           /\ (FreshPid /\ NoOverflow(lastDelta'))
              => Sign(delay' - delay) =
                    IF \/ Adjustment(lastDelta') = 0
                       \/ lastDelta' > 0 /\ delay = 0
                       \/ lastDelta' < 0 /\ delay = period
                    THEN 0
                    ELSE -Sign(lastDelta')]_vars

C20_Witness ==
    /\ pidUpdates = 1
    /\ kp = 50 /\ ki = 0 /\ kd = 50
    /\ lastDelta = 2
    /\ prevDelay = period
    /\ delay = prevDelay - 2

\* C21 (SpecPLL): one PID update with input delta computes, with quotients
\* truncated toward zero and every result taken as a machine integer,
\* p = delta*kp/100, integral' = integral + delta*ki/100,
\* d = (delta - last_delta)*kd/100, sets last_delta' = delta and
\* delay' = clamp(delay - (p + integral' + d), 0, period), and leaves period
\* and the gains unchanged.
C21_PidStep ==
    [][pidUpdates' # pidUpdates
        => LET delta == lastDelta'
               Quot(a) == IF a >= 0 THEN a \div 100 ELSE -((-a) \div 100)
               p == Quot(Wrap(delta * kp))
               i == Wrap(integral + Quot(Wrap(delta * ki)))
               d == Quot(Wrap(Wrap(delta - lastDelta) * kd))
               raw == Wrap(delay - Wrap(Wrap(p + i) + d))
           IN /\ delta \in Deltas
              /\ integral' = i
              /\ delay' = IF raw > period THEN period
                          ELSE IF raw < 0 THEN 0 ELSE raw
              /\ UNCHANGED <<period, kp, ki, kd>>]_vars

C21_Witness ==
    /\ pidUpdates = 3
    /\ kp = 50 /\ ki = 50 /\ kd = 50
    /\ lastDelta = -3
    /\ integral = 0
    /\ delay = prevDelay + 2
    /\ delay < period

\* C22 (SpecPLLRun), as the specification states it: no call of Stop panics,
\* with or without a prior Start, and when two calls of Stop have returned
\* the ticker is stopped and both channels are closed.  The code does not
\* keep it: the second Stop closes EventCh again.
C22_StopIdempotent ==
    /\ pllPanic # "close"
    /\ (\A c \in StopCallers : stopPc[c] = "done")
        => ~tickerOn /\ eventClosed /\ triggerClosed

\* the second Stop has panicked, on a PLL that was never started
C22_Witness ==
    /\ pllPanic = "close"
    /\ loopPc = "none"
    /\ \E c, e \in StopCallers : stopPc[c] = "done" /\ stopPc[e] = "body"

\* C23 (SpecPLLRun), as the specification states it: the goroutine of Start
\* does not hold PLL.mu while it waits in its select, and a Stop that waits
\* for the mutex while that goroutine is in its loop gets the mutex.  The
\* code does not keep it: the goroutine locks once, before the loop, and its
\* deferred unlock never runs.
C23_LockDiscipline ==
    /\ [](loopPc = "select" => pllMu # "loop")
    /\ \A c \in StopCallers :
        (stopPc[c] = "lock" /\ loopPc = "select") ~> (stopPc[c] # "lock")

\* the goroutine of Start waits in its select with the mutex, and both Stop
\* callers wait for the mutex
C23_Witness ==
    /\ loopPc = "select"
    /\ pllMu = "loop"
    /\ \A c \in StopCallers : stopPc[c] = "lock"
    /\ pidUpdates >= 1
    /\ tickerOn /\ ~eventClosed /\ ~triggerClosed

\* a call of Stop has returned
Stopped == \E c \in StopCallers : stopPc[c] = "done"

\* C24 (SpecPLLRun), as the specification states it: once a Stop has returned
\* no PID update is performed, no trigger goroutine sends on the closed
\* TriggerCh, and the goroutine of Start, if there is one, comes to an end.
\* The code does not keep it: the loop has no exit, a receive from the closed
\* EventCh always succeeds, and a sleeping trigger goroutine is not told.
C24_StoppedIsTerminal ==
    /\ [][Stopped => pidUpdates' = pidUpdates]_vars
    /\ [](pllPanic # "send")
    /\ Stopped ~> (loopPc \notin {"lock", "select"})

\* after a Stop has returned, the goroutine of Start is in its loop and has
\* performed PID updates
C24_Witness ==
    /\ Stopped
    /\ pllPanic = "none"
    /\ loopPc = "select"
    /\ pidUpdates = 2

\* a trigger goroutine that slept through Stop has sent on the closed TriggerCh
C24_WitnessSend ==
    /\ Stopped
    /\ pllPanic = "send"

(***************************************************************************)
(* Properties of the endpoints                                             *)
(***************************************************************************)
\* a step that is a call of Close after the first one, the endpoint having
\* been opened before the first one
LaterClose ==
    /\ ep.openRet = "nil"
    /\ ep.openAt = 0
    /\ Len(ep.closes) >= 1
    /\ Len(ep'.closes) = Len(ep.closes) + 1

\* C25: Close is idempotent for every endpoint kind: a second Close returns
\* no error and changes no state of the endpoint.
C25_CloseIdempotent ==
    [][LaterClose => ep' = [ep EXCEPT !.closes = Append(@, "nil")]]_vars

\* a FileHandler was opened and closed twice with nothing in between that
\* closed the file, and the second Close returned an error
C25_Witness ==
    /\ ep.kind = "file"
    /\ ep.openRet = "nil"
    /\ ep.ftask \in {"ropen", "wopen"}
    /\ ep.closes = <<"nil", "err">>

\* the second Close of a TCP, Unix-domain or UDP endpoint that was opened
\* returned no error
C25_WitnessOthers ==
    /\ ep.kind \in {"tcp", "unix", "udp"}
    /\ ep.openRet = "nil"
    /\ ep.closes = <<"nil", "nil">>

\* Close has been called on an endpoint that was open
Closed == ep.openRet = "nil" /\ ep.openAt = 0 /\ ep.closes # <<>>

\* the goroutines of the endpoint that have not returned
Running ==
    (IF ep.bg = "start" THEN {"open"} ELSE {})
    \cup (IF ep.accept # "none" THEN {"accept"} ELSE {})
    \cup {c \in Conns : ep.stream[c] \in {"loop", "send"}}
    \cup (IF ep.udp \in {"rloop", "rsend", "wloop"} THEN {"udp"} ELSE {})
    \cup (IF ep.ftask \in {"ropen", "rloop", "wopen", "wloop"}
          THEN {"file"} ELSE {})

\* C26: after Close on an open endpoint every background task (accept loop,
\* stream task of a connection, UDP receive loop, file reader or writer)
\* terminates: none keeps iterating or stays blocked for ever.
C26_Cancellation == Closed ~> (Running = {} \/ ep.panic)

\* a server was opened and closed, and its accept loop has gone round twice
\* since without returning
C26_Witness ==
    /\ Closed
    /\ ep.kind = "tcp"
    /\ ep.listener = "closed"
    /\ ep.accept = "run"
    /\ ep.spins = 2

\* a UDP Reader was opened and closed, and its receive loop has gone round
\* twice on the closed socket without returning
C26_WitnessUdp ==
    /\ Closed
    /\ ep.udpConn = "closed"
    /\ ep.expired = {}
    /\ ep.udp = "rloop"
    /\ ep.spins = 2

\* the stream task of a Reader's connection returned after Close
C26_WitnessStream ==
    /\ Closed
    /\ ep.role = "reader"
    /\ \E c \in Conns : ep.stream[c] = "done" /\ c \notin ep.gone

\* the connections of the handler on which a write succeeds
Live == {c \in ep.conns : ep.sock[c] = "open" /\ c \notin ep.gone}

\* a step in which a stream Writer takes a payload from the data channel
TakesPayload ==
    /\ ep.kind \in {"tcp", "unix"}
    /\ ep.role = "writer"
    /\ ep.chan # <<>>
    /\ ep'.chan = Tail(ep.chan)

\* C27: every payload a stream Writer takes from the data channel is written
\* to every live connection; a connection whose write fails is closed and
\* removed, and the others lose nothing by it.
C27_FanOut ==
    [][TakesPayload =>
        /\ \A c \in Live :
              ep'.written[c] = Append(ep.written[c], Head(ep.chan))
        /\ \A c \in ep.conns \ Live :
              \/ ep'.sock[c] = "closed" /\ c \notin ep'.conns
              \/ ep'.stream[c] = ep.stream[c]]_vars

\* two connections are live, one payload was taken from the data channel,
\* and only one of the connections was written it
C27_Witness ==
    /\ ep.kind = "tcp"
    /\ ep.role = "writer"
    /\ Live = Conns
    /\ ep.puts = 1
    /\ ep.chan = <<>>
    /\ ep.written["k1"] = <<1>>
    /\ ep.written["k2"] = <<>>

\* the connection whose write failed was closed and removed, and the other
\* was written the next payload
C27_WitnessFail ==
    /\ ep.role = "writer"
    /\ ep.stream["k1"] = "done"
    /\ ep.sock["k1"] = "closed"
    /\ ep.conns = {"k2"}
    /\ ep.written["k2"] = <<2>>
    /\ ep.closes = <<>>

\* the allow-list entry e names the source address src: "ip:port" names one
\* address, "ip" every port of it
Names(e, src) == e.ip = src.ip /\ (e.port = 0 \/ e.port = src.port)

\* src is in the allow-list
InAllowList(src) == \E e \in ep.allowed : Names(e, src)

\* C28: a UDP Reader forwards a datagram to the data channel if and only if
\* its source address is in the allow-list at the time of receipt; a
\* datagram from another source is dropped and the loop keeps running.
C28_AllowList ==
    [][\A src \in Sources :
          UdpReceive(src) /\ ~ep'.panic =>
              /\ ep'.pending = <<src>> <=> InAllowList(src)
              /\ ep'.udp \in {"rloop", "rsend"}]_vars

\* both source addresses were given to the constructor and are in the
\* allow-list, a datagram was received, and it was dropped
C28_Witness ==
    /\ ep.kind = "udp"
    /\ ep.allowed = Sources
    /\ ~ep.mapWrite
    /\ ep.reads = 1
    /\ ep.udp = "rloop"
    /\ ep.pending = <<>>
    /\ ep.forwarded = <<>>

\* a datagram of a source added with AddSource by its IP was forwarded, and
\* one of another source was dropped
C28_WitnessForwarded ==
    /\ ep.kind = "udp"
    /\ ep.allowed = {[ip |-> "a", port |-> 0]}
    /\ ep.reads = 2
    /\ ep.udp = "rloop"
    /\ ep.forwarded = <<[ip |-> "a", port |-> 1]>>

\* a stream handler in Peer mode has no resource to acquire
NothingToAcquire(e) == e.kind \in {"tcp", "unix"} /\ e.mode = "peer"

\* the endpoint holds its resource: the listener is bound, the connection is
\* dialed, the socket is bound, the file is opened or the FIFO is made
Acquired(e) ==
    CASE e.kind \in {"tcp", "unix"} ->
             \/ NothingToAcquire(e)
             \/ e.mode = "server" /\ e.listener = "open"
             \/ e.mode = "client" /\ e.conns # {}
      [] e.kind = "udp" -> e.udpConn = "open"
      [] e.kind = "file" -> e.fdOpen \/ (e.fifo /\ e.exists)

\* a step in which Open returns
OpenReturns == ep.openRet = "none" /\ ep'.openRet # "none"

\* C29: Open returns ok only after the resource is acquired; a bind, resolve
\* or dial failure is returned to the caller as an error, and no background
\* task is left running.
C29_OpenAcquires ==
    [][OpenReturns /\ ~ep'.panic =>
          IF ep.envOk \/ NothingToAcquire(ep)
          THEN ep'.openRet = "nil" => Acquired(ep')
          ELSE ep'.openRet = "err" /\ Running' = {}]_vars

\* Open of a Unix-domain server returned ok, and the bind failed afterwards
\* in its goroutine
C29_Witness ==
    /\ ep.kind = "unix"
    /\ ep.mode = "server"
    /\ ~ep.envOk
    /\ ep.openRet = "nil"
    /\ ep.bg = "done"
    /\ ep.listener = "nil"
    /\ ep.closes = <<>>

\* Open of a TCP server returned the error of a failed bind, and Open of
\* another kind returned ok with its resource acquired
C29_WitnessError ==
    /\ ep.kind = "tcp"
    /\ ep.mode = "server"
    /\ ep.openRet = "err"
    /\ ep.listener = "nil"
    /\ Running = {}

\* the goroutines of a Reader that are in their read loop
Reading ==
    {c \in Conns : ep.role = "reader" /\ ep.stream[c] \in {"loop", "send"}}
    \cup (IF ep.udp \in {"rloop", "rsend"} THEN {"udp"} ELSE {})
    \cup (IF ep.ftask = "rloop" THEN {"file"} ELSE {})

\* a step in which the read of goroutine t fails because its deadline has
\* passed, the resource being open and the peer there
TimedOutRead(t) ==
    /\ t \in ep.expired
    /\ IF t = "udp"
       THEN ep.udpConn = "open" /\ UdpReceiveFail
       ELSE ep.sock[t] = "open" /\ t \notin ep.gone /\ StreamReadFail(t)

\* C30: a Reader with a read deadline greater than zero reads under that
\* deadline in every iteration of its loop, and a read that times out ends
\* the loop.
C30_ReaderDeadline ==
    /\ [](ep.deadline => Reading \subseteq ep.armed)
    /\ [][\A t \in Readers : TimedOutRead(t) => t \notin Reading']_vars

\* the read of a UDP Reader has timed out twice on its open socket, and the
\* receive loop is still running
C30_Witness ==
    /\ ep.kind = "udp"
    /\ ep.deadline
    /\ ep.udpConn = "open"
    /\ "udp" \in ep.expired
    /\ ep.udp = "rloop"
    /\ ep.spins = 2
    /\ ep.closes = <<>>

\* a TCP Reader with a read deadline is reading with no deadline set
C30_WitnessTcp ==
    /\ ep.kind = "tcp"
    /\ ep.deadline
    /\ ep.armed = {}
    /\ ep.stream["k1"] = "loop"
    /\ ep.role = "reader"
    /\ ep.reads = 1

\* the read of a Unix-domain Reader timed out and its loop ended
C30_WitnessUnix ==
    /\ ep.kind = "unix"
    /\ "k1" \in ep.expired
    /\ ep.stream["k1"] = "done"
    /\ "k1" \notin ep.gone
    /\ ep.closes = <<>>

(***************************************************************************)
(* C31: when Send returns the buffer-full error to an endpoint task, the   *)
(* task drops that packet and keeps running; only the channel-closed       *)
(* error makes the task leave its loop.  Stated for readData, the caller   *)
(* of PacketChan.Send: a step in which Send returns the buffer-full error  *)
(* forwards nothing and leaves the goroutine in its loop, and a step of    *)
(* the loop that ends the goroutine on a Send error had the channel        *)
(* closed.                                                                 *)
(***************************************************************************)
SendReturns(err) ==
    /\ ep.kind = "file"
    /\ ep.ftask = "rloop"
    /\ ep'.reads = ep.reads + 1
    /\ SendResult(ep) = err

C31_BufferFullKeepsRunning ==
    [][/\ SendReturns("full") =>
            (ep'.ftask = "rloop" /\ ep'.forwarded = ep.forwarded)
       /\ (ep.kind = "file" /\ ep.ftask = "rloop" /\ ep'.ftask = "done"
            /\ ep'.reads = ep.reads + 1) => ep.pktClosed]_vars

\* readData has returned because Send found the buffer full, the channel
\* being open
C31_Witness ==
    /\ ep.kind = "file"
    /\ ep.sendErr = "full"
    /\ ep.ftask = "done"
    /\ ~ep.pktClosed

(***************************************************************************)
(* C32: for every PCR value below 2^42 and every packet whose AFC says     *)
(* there is an adaptation field, GetPCR after SetPCR(pcr) returns pcr, and *)
(* the PCR flag (offset 5, bit 4) is set afterwards.  Stated of the frame  *)
(* that a PCR setter has just returned, for the method SetPCR and for the  *)
(* function SetPCR with a PCR frequency.                                   *)
(***************************************************************************)
\* a PCR setter has just been applied to a packet with an adaptation field;
\* no setter changes the AFC
PcrWasSet ==
    /\ codec.op \in {"SetPCR", "SetPCRFrequency"}
    /\ HasAdaptation(codec.frame)

\* GetPCR returns the PCR that was set
PcrReadBack == GetPCR(codec.frame) = Value(codec.arg)

\* the PCR flag is set
PcrFlag == BitAnd(At(codec.frame, 5), 16) # 0

C32_PcrRoundTrip == PcrWasSet => (PcrReadBack /\ PcrFlag)

\* the method has put 1234567890 in a packet whose AFC is 2, and GetPCR
\* returns it
C32_Witness ==
    /\ codec.op = "SetPCR"
    /\ GetAFC(codec.frame) = 2
    /\ codec.arg = <<0, 0, 0, 0, 73, 150, 2, 210>>
    /\ PcrReadBack

\* the function has put 1234567890 in a packet whose AFC is 2
C32_WitnessFrequency ==
    /\ codec.op = "SetPCRFrequency"
    /\ GetAFC(codec.frame) = 2
    /\ codec.arg = <<0, 0, 0, 0, 73, 150, 2, 210>>

(***************************************************************************)
(* C33: the getters of the codec are total: for every 188-byte frame, with *)
(* any AFC and any value of the length bytes at offsets 4 and 22,          *)
(* GetPayload, GetAdaptationField, GetPCR, GetOPCR,                        *)
(* GetTransportPrivateData and GetAdaptationFieldExtension return a value  *)
(* and never fail with an out-of-range access.                             *)
(***************************************************************************)
Getters ==
    {"GetPayload", "GetAdaptationField", "GetPCR", "GetOPCR",
     "GetTransportPrivateData", "GetAdaptationFieldExtension"}

C33_GettersTotal == codec.op \in Getters => ~codec.out.panic

\* GetPayload has been called on a payload-only frame whose byte at offset
\* 4 is 184, so that the slice would end at offset 189
C33_Witness ==
    /\ codec.op = "GetPayload"
    /\ GetAFC(codec.frame) = 1
    /\ At(codec.frame, 4) = 184

\* GetTransportPrivateData has returned the 165 bytes that end the frame
C33_WitnessValue ==
    /\ codec.op = "GetTransportPrivateData"
    /\ ~codec.out.panic
    /\ Len(codec.out.val) = 165

(***************************************************************************)
(* C34: for every 188-byte frame p with p[0] = 0x47, decoding p, encoding  *)
(* the result and decoding again yields the same header fields (TEI, PUSI, *)
(* transport priority, PID, scrambling control, continuity counter) as     *)
(* decoding p once.  Stated of the state in which NewPacket has returned a *)
(* packet for the frame that Encode made of an earlier packet.             *)
(***************************************************************************)
\* NewPacket has decoded the frame that Encode wrote
DecodedAgain ==
    /\ codec.op = "NewPacket"
    /\ codec.from # <<>>
    /\ ~codec.out.panic
    /\ ~codec.out.err

C34_HeaderRoundTrip ==
    DecodedAgain => codec.out.val.Decoded = codec.from[1]

\* the round trip of a frame whose TEI, PUSI and transport priority are set
C34_Witness ==
    /\ DecodedAgain
    /\ codec.from[1].TransportError
    /\ codec.from[1].PayloadUnitStart
    /\ codec.from[1].TransportPriority

\* the round trip of a frame whose three flags are clear
C34_WitnessClear ==
    /\ DecodedAgain
    /\ ~codec.from[1].TransportError
    /\ ~codec.from[1].PayloadUnitStart
    /\ ~codec.from[1].TransportPriority
    /\ codec.from[1].PID = 35

(***************************************************************************)
(* C35 (Spec): no starvation.  With maxTake >= 1, every Do call, in any    *)
(* reachable state, returns at least one item in the slot of every queue   *)
(* that is not empty at the call, whatever the other queues hold and       *)
(* whatever operations produced its quantum.                               *)
(***************************************************************************)
C35_NoStarvation ==
    [][(last'.op = "Do" /\ maxTake >= 1) =>
        \A i \in 1..Len(queues) :
            Len(queues[i]) >= 1 => Len(last'.ret[i]) >= 1
    ]_vars

\* a Do call with maxTake = 1 that took one item from a queue of three and
\* the only item of the other queue
C35_Witness ==
    /\ last.op = "Do"
    /\ maxTake = 1
    /\ Len(queues) = 2
    /\ Len(last.ret[1]) = 1 /\ Len(queues[1]) = 2
    /\ Len(last.ret[2]) = 1 /\ queues[2] = <<>>

(***************************************************************************)
(* C36 (Spec): in every reachable state the quantum of a non-empty queue   *)
(* is its length, and the quantum of an empty queue is 0 or 1; hence       *)
(* Dequeue never decrements a quantum of 0, and Do takes                   *)
(* min(length, maxTake) items from every non-empty queue.                  *)
(***************************************************************************)
QuantumIsLength ==
    \A i \in 1..Len(queues) :
        IF Len(queues[i]) >= 1
        THEN quantums[i] = Len(queues[i])
        ELSE quantums[i] \in {0, 1}

C36_QuantumLength ==
    /\ []QuantumIsLength
    /\ [][/\ (last'.op = "Dequeue" /\ Len(queues[last'.queue]) >= 1) =>
                quantums[last'.queue] >= 1
          /\ last'.op = "Do" =>
                \A i \in 1..Len(queues) :
                    Len(queues[i]) >= 1 =>
                        Len(last'.ret[i]) = Min(Len(queues[i]), maxTake)
       ]_vars

\* a queue was emptied by Dequeue calls, next to a queue that holds items
C36_Witness ==
    /\ last.op = "Dequeue"
    /\ Len(last.ret) = 1
    /\ queues[last.queue] = <<>>
    /\ quantums[last.queue] = 0
    /\ \E j \in 1..Len(queues) : Len(queues[j]) >= 2 /\ quantums[j] >= 2

(***************************************************************************)
(* C37 (Spec): RemoveQueue removes the last queue and its quantum and      *)
(* nothing else: the remaining queues keep their items, order and          *)
(* quantums; on a scheduler with no queues it changes nothing.             *)
(***************************************************************************)
C37_RemoveQueueStep ==
    [][last'.op = "RemoveQueue" =>
        IF Len(queues) = 0
        THEN queues' = queues /\ quantums' = quantums
        ELSE /\ Len(queues') = Len(queues) - 1
             /\ Len(quantums') = Len(quantums) - 1
             /\ \A i \in 1..Len(queues') :
                    queues'[i] = queues[i] /\ quantums'[i] = quantums[i]
    ]_vars

\* the last queue was removed and left a queue with two different items
C37_Witness ==
    /\ last.op = "RemoveQueue"
    /\ Len(queues) = 1
    /\ Len(queues[1]) = 2
    /\ queues[1][1] # queues[1][2]
    /\ quantums[1] = 2

\* RemoveQueue was called on a scheduler with no queues
C37_WitnessNone ==
    /\ last.op = "RemoveQueue"
    /\ queues = <<>>
    /\ quantums = <<>>

(***************************************************************************)
(* C38: Close against the accept loop, or the client's connect, of a TCP   *)
(* or Unix-domain endpoint.  In every interleaving: no connection is in    *)
(* the connection set once Close has let the set go; every connection      *)
(* that was accepted or dialled is closed in the end once Close has been   *)
(* called; and no goroutine panics.                                        *)
(***************************************************************************)
\* a stream endpoint that was opened before any Close
StreamOpened ==
    /\ ep.kind \in {"tcp", "unix"}
    /\ ep.openRet = "nil"
    /\ ep.openAt = 0

C38_CloseAcceptRace ==
    /\ [](StreamOpened => (ep.connsNil => ep.conns = {}))
    /\ [](StreamOpened => ~ep.panic)
    /\ \A c \in Conns :
        (StreamOpened /\ ep.closes # <<>> /\ ep.sock[c] = "open")
            ~> (ep.sock[c] = "closed")

\* Close has run while the accept loop of a TCP server held a connection
\* that Accept had returned, and the loop has then written to the nil map
C38_Witness ==
    /\ StreamOpened
    /\ ep.kind = "tcp"
    /\ ep.mode = "server"
    /\ ep.listener = "closed"
    /\ \E c \in Conns : ep.sock[c] = "open" /\ c \notin ep.conns
    /\ ep.panic

\* the same on a Unix-domain server
C38_WitnessUnix ==
    /\ StreamOpened
    /\ ep.kind = "unix"
    /\ ep.mode = "server"
    /\ ep.listener = "closed"
    /\ \E c \in Conns : ep.sock[c] = "open" /\ c \notin ep.conns
    /\ ep.panic

\* Close has closed a connection that the accept loop had registered
C38_WitnessClosed ==
    /\ StreamOpened
    /\ ep.mode = "server"
    /\ ep.closes # <<>>
    /\ \E c \in Conns : ep.sock[c] = "closed"
    /\ ~ep.panic

(***************************************************************************)
(* C39: the lifecycle of a file endpoint, regular file or FIFO: IsOpen is  *)
(* false after construction, true after a successful Open, and false once  *)
(* Close has returned; when Close returns the data channel is closed and a *)
(* FIFO is unlinked, whether the background task had opened the file       *)
(* already or not.                                                         *)
(***************************************************************************)
\* a file endpoint on which Open has returned nil before any Close
FileOpened ==
    /\ ep.kind = "file"
    /\ ep.openRet = "nil"
    /\ ep.openAt = 0

\* Close returns on such an endpoint
FileCloseReturns ==
    /\ FileOpened
    /\ Len(ep'.closes) = Len(ep.closes) + 1

C39_FileLifecycle ==
    /\ []((ep.kind = "file" /\ ep.openRet = "none" /\ ep.closes = <<>>)
            => ~ep.isOpen)
    /\ []((FileOpened /\ ep.closes = <<>>) => ep.isOpen)
    /\ []((FileOpened /\ ep.closes # <<>>) => (~ep.isOpen /\ ep.pktClosed))
    /\ [][(FileCloseReturns /\ ep.fifo) => ~ep'.exists]_vars

\* Close has returned on a FIFO that Open had made and that the background
\* task had not opened yet
C39_Witness ==
    /\ FileOpened
    /\ ep.fifo
    /\ ep.closes # <<>>
    /\ ep.ftask \in {"ropen", "wopen"}
    /\ ~ep.fileSet

\* Close has returned on a regular file that Open had opened
C39_WitnessFile ==
    /\ FileOpened
    /\ ~ep.fifo
    /\ ep.closes = <<"nil">>
    /\ ~ep.isOpen
    /\ ep.pktClosed

(***************************************************************************)
(* C40: after the done channel given to InputStream.Start is closed, Start *)
(* returns within one loop iteration, in whatever state the task is:       *)
(* waiting for a datagram, or waiting to hand a packet to the output       *)
(* channel.  Stated as: the select that finds done closed returns, and     *)
(* once done is closed Start returns in the end, the task taking every     *)
(* step it can take on its own.                                            *)
(***************************************************************************)
\* Start has returned, or log.Fatalf has ended the process
InputEnded == input.pc \in {"returned", "exit"}

C40_InputCancellation ==
    /\ [][(input.pc = "select" /\ input.done) => input'.pc = "returned"]_vars
    /\ (input.pc # "unused" /\ input.done) ~> InputEnded

\* done is closed and Start waits for a datagram
C40_Witness ==
    /\ input.done
    /\ input.pc = "read"

\* done is closed and Start waits for the consumer to receive a packet
C40_WitnessSend ==
    /\ input.done
    /\ input.pc = "send"

\* Start has returned at the select
C40_WitnessReturned ==
    /\ input.done
    /\ input.pc = "returned"

====
